---- MODULE Spec2Model ----
(***************************************************************************)
(* Model of the researcher-ranking pipeline:                               *)
(*   - the cursor-paginated fetch loops of extraer_openalex.py and         *)
(*     openalex_scraper.py                                  (SpecFetch)    *)
(*   - the identifier reconciliation steps                  (SpecReconcile)*)
(*   - the cleaning/sorting pipeline of procesar_ranking.py (SpecClean)    *)
(*   - MetricsCalculator and ranking_desde_csv              (SpecMetrics)  *)
(*   - the scraping backends scraper.py, scraper_alt.py     (SpecScrape)   *)
(*   - the paid-API backend scraper_serpapi.py              (SpecSerp)     *)
(***************************************************************************)
EXTENDS Integers, Sequences, FiniteSets, TLC

VARIABLES
    \* ---- cursor-paginated fetch ----
    fn,           \* which fetch function runs: "chile", "topics", "inst"
    pc,           \* "loop" in the while-loop, "done" after return, "raised"
    cursor,       \* the local `cursor`
    all_authors,  \* the local accumulator (list / insertion-ordered dict values)
    fetched,      \* total_fetched / fetched / page counter
    inst,         \* index in chilean_institutions (outer for-loop), 1 otherwise
    result,       \* the returned list
    capped,       \* upstream: transport errors per page capped at RetryLimit
    errs,         \* upstream: consecutive transport errors on the current page
    tries,        \* history: requests issued with the current cursor
    maxTries,     \* history: most requests issued with any one cursor
    iters,        \* history: loop iterations (requests) of the whole call
    oks,          \* history: pages taken in by the current while-loop
    served,       \* history: every author of every successful response, in order
    lastEnd,      \* history: why the last while-loop ended
    lastResp,     \* history: what the upstream answered to the last request
    flog,         \* history: requests, responses and sleeps of the call, in order
    lastErrs,     \* history: transport errors in a row up to the last request
    failed,       \* history: some while-loop ended on a transport error
    \* ---- identifier reconciliation ----
    rk,           \* which step runs: "topics", "main", "extraer", "clean_data"
    rpc,          \* "in" before the step, "out" after it
    rin,          \* the records handed to the step, in arrival order
    rout,         \* the records the step leaves
    ragain,       \* the records the step leaves when run on rout
    \* ---- procesar_ranking.main ----
    fmt,          \* layout of the source CSV: "scraper", "extraer", "sin_pais", "sin_citas"
    h_index_minimo, \* the minimum main hands to filtrar_por_hindex
    printed,      \* the row counts limpiar_datos and filtrar_por_hindex print
    cpc,          \* the stage main has completed
    csv,          \* the rows of the source CSV
    df,           \* the DataFrame `df` of main, as its list of rows
    cols,         \* df.columns
    \* ---- MetricsCalculator and ranking_desde_csv.generar_ranking ----
    prog,         \* "metrics" (MetricsCalculator) or "csv" (generar_ranking)
    mpc,          \* "new", "built" (after __init__), "ranked"
    authors,      \* the list of dicts / the rows of the input CSV
    mdf,          \* self.df, then the ranking returned, as a list of rows
    ret,          \* what the ranking function returned: "frame" or "None"
    \* ---- ScholarScraper (scraper.py) and ScholarScraperAlt (scraper_alt.py) ----
    sb,           \* the backend: "alt" (ScholarScraperAlt) or "scholarly" (ScholarScraper)
    sop,          \* the operation called
    spc,          \* "search", "loop" or "done"
    stodo,        \* the identifiers the loop of the operation has still to take
    sauthors,     \* the list `authors` of the operation / the dict it returns
    sret,         \* what the operation returned: "pending", "None", "dict", "list"
    slog,         \* history: delays, upstream calls and page parses, in order
    sresps,       \* history: the answer of the upstream to each profile fetch
    squeue,       \* search_comprehensive: the searches it has still to make
    sall,         \* search_comprehensive: the dict all_authors, in insertion order
    \* ---- SerpAPIScholarScraper (scraper_serpapi.py), fetch_with_serpapi ----
    kenv,         \* os.environ.get('SERPAPI_KEY'): "" when it is not set
    karg,         \* the api_key argument of the constructor: "" for None
    kop,          \* the operation called last
    kpc,          \* "idle", "search" or "loop"
    ktodo,        \* the identifiers the loop of the operation has still to take
    kauthors,     \* the list `authors` of the operation / the dict it returns
    kret,         \* what the operation returned: "pending", "None", "dict", "list"
    kops,         \* history: operations called so far
    klog,         \* history: time.sleep and requests.get calls, in order
    kresps,       \* history: the answer to each get_author_by_id of the operation
    \* ---- add_researchers.py: add_by_id, add_from_file ----
    aop,          \* the function called: "add_by_id", "add_from_file", "search_and_add"
    apc,          \* "start", "loop" or "done"
    aidcol,       \* the file has one of the identifier columns
    acolumn,      \* the cells of df[id_col] (for add_by_id: the one argument; for
                  \* search_and_add: what `for idx in indices` goes through)
    apos,         \* cells of the column the loop has taken
    adict,        \* the dict `authors`: scholar_id -> record
    added,        \* the counter `added`
    aret,         \* <<v>> once the function has returned v, <<>> before
    aloaded,      \* history: `authors` as it was handed to the function
    abefore,      \* history: `authors` before the most recent add_by_id call
    alast         \* history: the most recent add_by_id call, <<>> before it

fetchVars == <<fn, pc, cursor, all_authors, fetched, inst, result, capped,
               errs, tries, maxTries, iters, oks, served, lastEnd, lastResp,
               lastErrs, failed, flog>>

recVars == <<rk, rpc, rin, rout, ragain>>

cleanVars == <<fmt, h_index_minimo, printed, cpc, csv, df, cols>>

metricsVars == <<prog, mpc, authors, mdf, ret>>

scrapeVars == <<sb, sop, spc, stodo, sauthors, sret, slog, sresps, squeue, sall>>

serpVars == <<kenv, karg, kop, kpc, ktodo, kauthors, kret, kops, klog, kresps>>

addVars == <<aop, apc, aidcol, acolumn, apos, adict, added, aret, aloaded, abefore, alast>>

vars == <<fetchVars, recVars, cleanVars, metricsVars, scrapeVars, serpVars, addVars>>

\* what the actions of one part leave alone
notFetch == <<recVars, cleanVars, metricsVars, scrapeVars, serpVars, addVars>>
notRec == <<fetchVars, cleanVars, metricsVars, scrapeVars, serpVars, addVars>>
notClean == <<fetchVars, recVars, metricsVars, scrapeVars, serpVars, addVars>>
notMetrics == <<fetchVars, recVars, cleanVars, scrapeVars, serpVars, addVars>>
notScrape == <<fetchVars, recVars, cleanVars, metricsVars, serpVars, addVars>>
notSerp == <<fetchVars, recVars, cleanVars, metricsVars, scrapeVars, addVars>>
notAdd == <<fetchVars, recVars, cleanVars, metricsVars, scrapeVars, serpVars>>

(***************************************************************************)
(* Bounds of the model                                                     *)
(***************************************************************************)
MaxId == 2        \* author identifiers 0..MaxId (0: the record has no id)
MaxPages == 2     \* non-empty pages the upstream serves in one run
MaxErrs == 2      \* transport errors in a row an uncapped upstream may raise
MaxResults == 3   \* max_results / max_per_term, scaled to the page size
NumInst == 2      \* length of chilean_institutions, scaled
MaxRecs == 2      \* records handed to one reconciliation step
MaxCitas == 1     \* citation counts 0..MaxCitas of those records
MaxH == 1         \* h-index values 0..MaxH of those records
TableRows == 2    \* rows of the source CSV of procesar_ranking
TableMaxH == 1    \* h_index values 0..TableMaxH of its rows
TableMaxCitas == 1 \* citas values 0..TableMaxCitas of its rows
ThreshMaxH == 2   \* h_index values 0..ThreshMaxH of a row put to the threshold
MaxTopics == 2    \* topic names in the topics cell of a classified row
RankRows == 3     \* records of a batch handed to a ranking function
RankMaxH == 1     \* h_index values 0..RankMaxH of those records
RankMaxC == 1     \* citations values 0..RankMaxC of those records
ConsMaxH == 2     \* h_index values of a record scored for consistency
ConsMaxC == 2     \* citations values of a record scored for consistency
ConsMaxH5 == 1    \* h_index_5y values of a record scored for consistency
ImpactRows == 2   \* records of a batch scored for impact
ImpactMax == 1    \* metric values 0..ImpactMax of those records
RawMax == 1       \* raw metric values -RawMax..RawMax, and the halves between
MaxAddIds == 2    \* scholar ids 1..MaxAddIds known to add_researchers
MaxFileIds == 2   \* cells of the identifier column of a file of ids
MaxScrapeIds == 3 \* identifiers handed to / found by one scraping operation
MaxPicks == 2     \* numbers in the selection typed into search_and_add
MaxSearches == 2  \* universities and disciplines handed to search_comprehensive
ScrapeMaxResults == 2 \* max_results of a search, scaled
MaxSerpOps == 2   \* operations called on the paid-API backend in one run
MaxSerpIds == 2   \* identifiers handed to / found by one of them

\* spec: "at most one retry per page"
RetryLimit == 1

\* cursor values: None (falsy), the sentinel "*", then opaque tokens 2, 3, ...
NoCursor == 0
FirstCursor == 1

(***************************************************************************)
(* The upstream catalogue: what a raw author of the API looks like.        *)
(* id 0 stands for a result without "id"; author 2 is outside the social   *)
(* sciences and affiliated abroad.                                         *)
(***************************************************************************)
RawAuthor(i, v) ==
    [id |-> i, cs |-> (i # 2), country |-> IF i = 2 THEN "AR" ELSE "CL", ver |-> v]

RECURSIVE SetToSeq(_)
SetToSeq(S) ==
    IF S = {} THEN <<>>
    ELSE LET m == CHOOSE x \in S : \A y \in S : x <= y
         IN <<m>> \o SetToSeq(S \ {m})

\* the non-empty result pages the upstream may serve (as lists of ids)
PageChoices == {SetToSeq(S) : S \in (SUBSET (0..MaxId)) \ {{}}}

Stamp(ids, v) == [k \in 1..Len(ids) |-> RawAuthor(ids[k], v)]

\* number of non-empty pages served so far
PagesServed == IF served = <<>> THEN 0 ELSE served[Len(served)].ver

Max(a, b) == IF a >= b THEN a ELSE b

HasId(all, i) == \E k \in 1..Len(all) : all[k].id = i

\* es_ciencias_sociales(author)[0]
es_ciencias_sociales(a) == a.cs

\* get_authors_chile: the body of `for author in results`
RECURSIVE ChileAppend(_, _)
ChileAppend(all, results) ==
    IF results = <<>> THEN all
    ELSE LET a == Head(results)
         IN ChileAppend(IF es_ciencias_sociales(a) /\ a.country = "CL"
                        THEN Append(all, a) ELSE all,
                        Tail(results))

\* get_authors_by_topics: the body of `for author in results`
RECURSIVE TopicsAddMutNoCheck(_, _)
TopicsAddMutNoCheck(all, results) ==
    IF results = <<>> THEN all
    ELSE LET a == Head(results)
         IN TopicsAddMutNoCheck(IF a.id # 0 THEN Append(all, a) ELSE all,
                                Tail(results))

RECURSIVE TopicsAdd(_, _)
TopicsAdd(all, results) ==
    IF results = <<>> THEN all
    ELSE LET a == Head(results)
         IN TopicsAdd(IF a.id # 0 /\ ~HasId(all, a.id)
                      THEN Append(all, a) ELSE all,
                      Tail(results))

\* get_authors_by_institution_search: the body of `for author in results`
RECURSIVE InstAdd(_, _)
InstAdd(all, results) ==
    IF results = <<>> THEN all
    ELSE LET a == Head(results)
         IN InstAdd(IF a.country = "CL" /\ ~HasId(all, a.id)
                    THEN Append(all, a) ELSE all,
                    Tail(results))

Accumulate(f, all, results) ==
    CASE f = "chile"  -> ChileAppend(all, results)
      [] f = "topics" -> TopicsAdd(all, results)
      [] f = "inst"   -> InstAdd(all, results)

\* the counter each loop adds to: page += 1 / total_fetched += len(results)
Count(f, n, results) == IF f = "chile" THEN n + 1 ELSE n + Len(results)

\* the while condition
LoopCondMutNoCursor(f, cur, n) == f = "chile" \/ n < MaxResults

LoopCond(f, cur, n) ==
    /\ cur # NoCursor
    /\ (f = "chile" \/ n < MaxResults)

\* the except branch: chile sleeps and continues, the others break
RetriesOnErrorMutTopics(f) == TRUE

RetriesOnError(f) == f = "chile"

\* `except requests.exceptions.RequestException` catches the transport error
Handled(f) == TRUE

\* the cursor after the except branch of get_authors_chile: `continue`
\* assigns nothing
CursorAfterErrorMutRestart(cur) == FirstCursor

CursorAfterError(cur) == cur

\* what the except branch leaves in the accumulator
AfterErrorMutDrop(all) == <<>>

AfterError(all) == all

ErrCap == IF capped THEN RetryLimit ELSE MaxErrs

\* the for-loop of get_authors_by_institution_search has institutions left
MoreInst == fn = "inst" /\ inst < NumInst

(***************************************************************************)
(* End of a while-loop: the next institution of the for-loop, or return.   *)
(***************************************************************************)
EndLoop(why, all, byError) ==
    /\ lastEnd' = why
    /\ failed' = (failed \/ byError)
    /\ all_authors' = all
    /\ IF MoreInst
       THEN /\ inst' = inst + 1
            /\ cursor' = FirstCursor
            /\ fetched' = 0
            /\ errs' = 0 /\ tries' = 0 /\ oks' = 0
            /\ UNCHANGED <<pc, result>>
       ELSE /\ pc' = "done"
            /\ result' = all
            /\ errs' = IF byError THEN errs + 1 ELSE 0
            /\ tries' = tries + 1
            /\ UNCHANGED <<inst, cursor, fetched, oks>>

\* one entry of the history of a call: a request carrying `cursor`, the
\* response to it ("page" with its next_cursor, "empty", "error"), or a
\* sleep of so many hundredths of a second; `l` numbers the while-loop
FEv(e, c, l) == [e |-> e, cur |-> c, loop |-> l]

\* sleep(0.05) of get_authors_chile, sleep(0.1) of openalex_scraper, in 1/100 s
SuccessDelay(f) == IF f = "chile" THEN 5 ELSE 10

\* sleep(2) in the except branch of get_authors_chile
ErrorDelay == 200

\* cursor = meta.get("next_cursor")
CursorAfterPageMutSame(cur, next) == cur

CursorAfterPage(cur, next) == next

\* an iteration that takes a page in: request, response, the trailing sleep
PageEvents(f, cur, next, l) ==
    <<FEv("request", cur, l), FEv("page", next, l), FEv("sleep", SuccessDelay(f), l)>>

\* an iteration whose response has no results: break before the sleep
EmptyEvents(cur, l) == <<FEv("request", cur, l), FEv("empty", NoCursor, l)>>

\* an iteration in the except branch: chile sleeps before `continue`
ErrorEventsMutNoSleep(f, cur, l) ==
    <<FEv("request", cur, l), FEv("error", NoCursor, l)>>

ErrorEvents(f, cur, l) ==
    <<FEv("request", cur, l), FEv("error", NoCursor, l)>>
    \o (IF RetriesOnError(f) THEN <<FEv("sleep", ErrorDelay, l)>> ELSE <<>>)

FetchStart ==
    /\ fn \in {"chile", "topics", "inst"}
    /\ capped \in BOOLEAN
    /\ pc = "loop"
    /\ cursor = FirstCursor
    /\ all_authors = <<>>
    /\ fetched = 0
    /\ inst = 1
    /\ result = <<>>
    /\ errs = 0 /\ tries = 0 /\ maxTries = 0 /\ iters = 0 /\ oks = 0
    /\ served = <<>>
    /\ lastEnd = "none"
    /\ lastResp = "none"
    /\ lastErrs = 0
    /\ failed = FALSE
    /\ flog = <<>>

\* one iteration whose requests.get raises a RequestException
RequestFails ==
    /\ pc = "loop"
    /\ errs < ErrCap
    /\ iters' = iters + 1
    /\ maxTries' = Max(maxTries, tries + 1)
    /\ lastResp' = "error"
    /\ lastErrs' = errs + 1
    /\ flog' = flog \o ErrorEvents(fn, cursor, inst)
    /\ IF ~Handled(fn)
       THEN /\ pc' = "raised"
            /\ UNCHANGED <<cursor, all_authors, fetched, inst, result, errs,
                           tries, oks, lastEnd, failed>>
       ELSE IF RetriesOnError(fn)
       THEN /\ errs' = errs + 1
            /\ tries' = tries + 1
            /\ all_authors' = AfterError(all_authors)
            /\ cursor' = CursorAfterError(cursor)
            /\ UNCHANGED <<pc, fetched, inst, result, oks, lastEnd, failed>>
       ELSE EndLoop("error", AfterError(all_authors), TRUE)
    /\ UNCHANGED <<fn, capped, served, notFetch>>

\* one iteration whose response has an empty "results": break
RespondEmpty ==
    /\ pc = "loop"
    /\ iters' = iters + 1
    /\ maxTries' = Max(maxTries, tries + 1)
    /\ lastResp' = "empty"
    /\ lastErrs' = 0
    /\ flog' = flog \o EmptyEvents(cursor, inst)
    /\ EndLoop("empty", all_authors, FALSE)
    /\ UNCHANGED <<fn, capped, served, notFetch>>

\* one iteration whose response has results and a next_cursor (or none)
RespondPage ==
    /\ pc = "loop"
    /\ PagesServed < MaxPages
    /\ iters' = iters + 1
    /\ maxTries' = Max(maxTries, tries + 1)
    /\ lastErrs' = 0
    /\ \E ids \in PageChoices, next_cursor \in {NoCursor, cursor + 1} :
         LET results == Stamp(ids, PagesServed + 1)
             all     == Accumulate(fn, all_authors, results)
             n       == Count(fn, fetched, results)
             next    == CursorAfterPage(cursor, next_cursor)
         IN /\ served' = served \o results
            /\ flog' = flog \o PageEvents(fn, cursor, next_cursor, inst)
            /\ lastResp' = IF next_cursor = NoCursor THEN "page_null" ELSE "page_next"
            /\ IF LoopCond(fn, next, n)
               THEN /\ all_authors' = all
                    /\ cursor' = next
                    /\ fetched' = n
                    /\ errs' = 0
                    /\ tries' = 0
                    /\ oks' = oks + 1
                    /\ UNCHANGED <<pc, inst, result, lastEnd, failed>>
               ELSE EndLoop(IF next = NoCursor THEN "null_cursor" ELSE "max_results",
                            all, FALSE)
    /\ UNCHANGED <<fn, capped, notFetch>>

\* procesar_ranking.H_INDEX_MINIMO
H_INDEX_MINIMO == 1

\* the parts of the pipeline a specification leaves out stay idle
IdleFetch ==
    /\ fn = "none" /\ capped = FALSE /\ pc = "done" /\ cursor = NoCursor
    /\ all_authors = <<>> /\ fetched = 0 /\ inst = 1 /\ result = <<>>
    /\ errs = 0 /\ tries = 0 /\ maxTries = 0 /\ iters = 0 /\ oks = 0
    /\ served = <<>> /\ lastEnd = "none" /\ lastResp = "none"
    /\ lastErrs = 0 /\ failed = FALSE /\ flog = <<>>

IdleRec == rk = "none" /\ rpc = "again" /\ rin = <<>> /\ rout = <<>> /\ ragain = <<>>

IdleClean ==
    /\ fmt = "none" /\ cpc = "ranked" /\ csv = <<>> /\ df = <<>> /\ cols = {}
    /\ h_index_minimo = H_INDEX_MINIMO /\ printed = <<>>

IdleMetrics ==
    prog = "none" /\ mpc = "ranked" /\ authors = <<>> /\ mdf = <<>> /\ ret = "frame"

IdleScrape ==
    sb = "none" /\ sop = "none" /\ spc = "done" /\ stodo = <<>> /\ sauthors = <<>>
    /\ sret = "list" /\ slog = <<>> /\ sresps = <<>> /\ squeue = <<>> /\ sall = <<>>

IdleSerp ==
    kenv = "" /\ karg = "" /\ kop = "none" /\ kpc = "off" /\ ktodo = <<>> /\ kauthors = <<>>
    /\ kret = "list" /\ kops = 0 /\ klog = <<>> /\ kresps = <<>>

IdleAdd ==
    /\ aop = "none" /\ apc = "done" /\ aidcol = TRUE /\ acolumn = <<>> /\ apos = 0
    /\ adict = <<>> /\ added = 0 /\ aret = <<>> /\ aloaded = <<>> /\ abefore = <<>>
    /\ alast = <<>>

InitFetch == FetchStart /\ IdleRec /\ IdleClean /\ IdleMetrics /\ IdleScrape /\ IdleSerp /\ IdleAdd

NextFetch == RequestFails \/ RespondEmpty \/ RespondPage

SpecFetch == InitFetch /\ [][NextFetch]_vars

(***************************************************************************)
(* Claims about the fetch loops                                            *)
(***************************************************************************)
\* the current while-loop is over: the call returned, or the for-loop of the
\* institution search went on to a fresh loop
LoopOver ==
    \/ pc = "done"
    \/ fn = "inst" /\ cursor = FirstCursor /\ tries = 0 /\ oks = 0 /\ fetched = 0

\* C1: with an upstream whose transport errors per page stay within the retry
\* limit, a response with empty results or without next_cursor ends the
\* while-loop at once, and the number of iterations stays within
\* (pages served + loops started) * (retry limit + 1).
C1_PaginationTerminates ==
    capped =>
        /\ iters <= (PagesServed + inst) * (RetryLimit + 1)
        /\ (lastResp \in {"empty", "page_null"} => LoopOver)

C1_Witness ==
    /\ capped /\ fn = "chile" /\ pc = "done"
    /\ lastResp = "page_null" /\ PagesServed = 2 /\ iters = 4

\* C2: after a first transport error on a page the same cursor is requested
\* once more; after a second one in a row the loop is over; no cursor is
\* requested more than twice.
C2_RetryExactlyOnce ==
    /\ maxTries <= 2
    /\ (lastErrs = 1 => pc = "loop" /\ tries = 1)
    /\ (lastErrs >= 2 => LoopOver)

\* the second half of C2 alone: no cursor is requested more than twice
C2_NoCursorMoreThanTwice == maxTries <= 2

\* what the accumulator must hold after the pages served so far
Kept(f, s, k) ==
    CASE f = "chile"  -> s[k].cs /\ s[k].country = "CL"
      [] f = "topics" -> s[k].id # 0 /\ \A j \in 1..(k - 1) : s[j].id # s[k].id
      [] f = "inst"   -> /\ s[k].country = "CL"
                         /\ \A j \in 1..(k - 1) :
                              ~(s[j].id = s[k].id /\ s[j].country = "CL")

RECURSIVE Pick(_, _, _)
Pick(f, s, k) ==
    IF k > Len(s) THEN <<>>
    ELSE (IF Kept(f, s, k) THEN <<s[k]>> ELSE <<>>) \o Pick(f, s, k + 1)

\* C3: a call one of whose while-loops ended on a transport error returns
\* normally, and returns exactly the records taken from the pages that were
\* served, each as it was parsed.
C3_PartialResultsKept ==
    /\ pc # "raised"
    /\ (pc = "done" /\ failed => result = Pick(fn, served, 1))

C3_Witness ==
    /\ fn = "topics" /\ pc = "done" /\ lastEnd = "error"
    /\ Len(result) >= 2 /\ PagesServed = 2

\* the last place before k of an event of while-loop l whose kind is in
\* kinds, 0 when there is none (the events of a while-loop are adjacent)
RECURSIVE LastBefore(_, _, _)
LastBefore(k, kinds, l) ==
    IF k <= 1 \/ flog[k - 1].loop # l THEN 0
    ELSE IF flog[k - 1].e \in kinds THEN k - 1
    ELSE LastBefore(k - 1, kinds, l)

\* the while-loop of the most recent event, and the most recent request
LastLoop == flog[Len(flog)].loop

LastRequest == LastBefore(Len(flog) + 1, {"request"}, LastLoop)

\* C15: in every while-loop the first request carries the sentinel cursor,
\* every later request carries the next_cursor of the most recent response
\* that took a page in, and no request follows a response with empty results
\* or without next_cursor.  Stated of the most recent request, which every
\* request is in the state that follows it.
C15_CursorChain ==
    flog # <<>> =>
        LET k == LastRequest
            p == LastBefore(k, {"page"}, LastLoop)
        IN  /\ LastBefore(k, {"empty"}, LastLoop) = 0
            /\ IF p = 0
               THEN flog[k].cur = FirstCursor
               ELSE flog[p].cur # NoCursor /\ flog[k].cur = flog[p].cur

\* get_authors_chile: first page, a transport error on the second cursor, the
\* retry with the same cursor, whose response has no next_cursor
C15_Witness ==
    /\ fn = "chile" /\ pc = "done" /\ lastResp = "page_null"
    /\ Len(flog) = 9
    /\ flog[1] = FEv("request", FirstCursor, 1)
    /\ flog[2] = FEv("page", FirstCursor + 1, 1)
    /\ flog[4] = FEv("request", FirstCursor + 1, 1)
    /\ flog[5].e = "error"
    /\ flog[7] = FEv("request", FirstCursor + 1, 1)
    /\ flog[8] = FEv("page", NoCursor, 1)

\* the delay the code sleeps after the response to the request at place j
FixedDelay(j) == IF flog[j + 1].e = "error" THEN ErrorDelay ELSE SuccessDelay(fn)

\* C16: between two consecutive requests of a while-loop one sleep is
\* executed, of the fixed length of its branch, after a page as after a
\* transport error.  Stated of the most recent request and the one before it
\* in the same while-loop.
C16_DelayBetweenRequests ==
    flog # <<>> =>
        LET k == LastRequest
            j == LastBefore(k, {"request"}, LastLoop)
        IN  j # 0 =>
              \E m \in (j + 1)..(k - 1) :
                  flog[m].e = "sleep" /\ flog[m].cur = FixedDelay(j)

\* get_authors_chile: a request after a page, then a request after an error
C16_Witness ==
    /\ fn = "chile" /\ Len(flog) >= 8
    /\ flog[1].e = "request" /\ flog[2].e = "page" /\ flog[3].e = "sleep"
    /\ flog[4].e = "request" /\ flog[5].e = "error" /\ flog[6].e = "sleep"
    /\ flog[7].e = "request"

\* the most recent response that took a page in, 0 when there is none
LastPage == LastBefore(Len(flog) + 1, {"page"}, 1)

\* C30: in get_authors_chile a transport error changes neither the cursor,
\* nor the page counter, nor the accumulated list, and the request after it
\* carries the cursor of the request that failed; every record of a page
\* that was fetched is in the list once for that page.  Stated as what the
\* three hold at any time: the cursor is that of the last page taken in (the
\* sentinel before any), the counter is the number of pages taken in, the
\* list is the pages taken in, filtered, in order.
C30_ErrorLeavesProgress ==
    (fn = "chile" /\ pc = "loop") =>
        /\ all_authors = ChileAppend(<<>>, served)
        /\ fetched = PagesServed
        /\ cursor = (IF LastPage = 0 THEN FirstCursor ELSE flog[LastPage].cur)
        /\ lastResp = "error" => cursor = flog[LastRequest].cur

\* a first page with records kept, then a transport error on the second
\* cursor: cursor, counter and list are those of after the first page
C30_Witness ==
    /\ fn = "chile" /\ pc = "loop" /\ lastResp = "error"
    /\ Len(flog) = 6 /\ flog[2].e = "page" /\ flog[5].e = "error"
    /\ cursor = FirstCursor + 1 /\ fetched = 1
    /\ Len(all_authors) = 2 /\ Len(served) = 3

(***************************************************************************)
(* Identifier reconciliation                                               *)
(*   "topics"     the per-page dedup of get_authors_by_topics              *)
(*   "main"       the merge of openalex_scraper.main                       *)
(*   "extraer"    drop_duplicates and sort of extraer_openalex.main        *)
(*   "clean_data" MetricsCalculator._clean_data                            *)
(* A record carries its identifier (0: none), citation count and h-index   *)
(* under the field names of the step that reads it, and `pos`, its place   *)
(* in the arrival order.                                                   *)
(***************************************************************************)
\* an element of data["results"]
ApiAuthor(i, c, h, p) == [id |-> i, cited_by_count |-> c, h_index |-> h, pos |-> p]

\* a dict returned by parse_author
ParsedAuthor(i, c, h, p) == [openalex_id |-> i, citas |-> c, h_index |-> h, pos |-> p]

\* an author_data dict of get_authors_chile
ChileAuthor(i, c, h, p) ==
    [openalex_id |-> i, cited_by_count |-> c, h_index |-> h, pos |-> p]

\* a dict handed to MetricsCalculator
ScholarAuthor(i, c, h, p) == [scholar_id |-> i, citations |-> c, h_index |-> h, pos |-> p]

\* the keys of the dict each adapter returns for one author
\* ScholarScraper._extract_author_data (scholarly)
ExtractAuthorDataFields ==
    {"scholar_id", "name", "affiliation", "email_domain", "interests", "h_index",
     "h_index_5y", "i10_index", "i10_index_5y", "citations", "citations_5y",
     "url_picture", "homepage", "cites_per_year", "extracted_at"}

\* ScholarScraperAlt._parse_author_page (direct HTML)
ParseAuthorPageFields ==
    {"scholar_id", "name", "affiliation", "email_domain", "interests", "h_index",
     "h_index_5y", "i10_index", "i10_index_5y", "citations", "citations_5y",
     "url_picture", "homepage", "cites_per_year", "extracted_at"}

\* SerpAPIScholarScraper.get_author_by_id (paid API)
SerpAuthorFields ==
    {"scholar_id", "name", "affiliation", "email_domain", "interests", "h_index",
     "h_index_5y", "i10_index", "i10_index_5y", "citations", "citations_5y",
     "url_picture", "homepage", "cites_per_year", "extracted_at"}

\* openalex_scraper.parse_author (cursor-paginated API)
ParseAuthorFields ==
    {"openalex_id", "orcid", "nombre", "institucion", "pais_institucion", "ror",
     "h_index", "i10_index", "citas", "trabajos", "campo_principal", "dominio",
     "topics", "works_api_url"}

\* extraer_openalex.get_authors_chile: author_data (cursor-paginated API)
AuthorDataFields ==
    {"openalex_id", "nombre", "orcid", "h_index", "i10_index", "cited_by_count",
     "works_count", "2yr_mean_citedness", "institucion", "campo_principal", "pais"}

\* the keys of the dicts a reconciliation step is handed: those of the
\* adapter that made them
RecordFields(k) ==
    CASE k = "main"       -> ParseAuthorFields
      [] k = "extraer"    -> AuthorDataFields
      [] k = "clean_data" -> ExtractAuthorDataFields
      [] OTHER            -> {"id", "cited_by_count", "h_index"}

\* the rows of s at the indices in S, in order
RECURSIVE Rows(_, _, _)
Rows(s, S, k) ==
    IF k > Len(s) THEN <<>>
    ELSE (IF k \in S THEN <<s[k]>> ELSE <<>>) \o Rows(s, S, k + 1)

\* DataFrame.drop_duplicates(subset=key, keep='first')
DropDuplicates(frame, key) ==
    Rows(frame, {k \in 1..Len(frame) :
                \A j \in 1..(k - 1) : frame[j][key] # frame[k][key]}, 1)

\* openalex_scraper.main: all_authors[aid] = author, kept if it has more citas
Replace(all, a) ==
    [k \in 1..Len(all) |->
        IF all[k].openalex_id = a.openalex_id /\ a.citas > all[k].citas
        THEN a ELSE all[k]]

RECURSIVE MergeMainMutAppend(_, _)
MergeMainMutAppend(all, incoming) ==
    IF incoming = <<>> THEN all
    ELSE MergeMainMutAppend(Append(all, Head(incoming)), Tail(incoming))

\* a merge that puts a new identifier in front of the ones it holds
RECURSIVE MergeMainMutPrepend(_, _)
MergeMainMutPrepend(all, incoming) ==
    IF incoming = <<>> THEN all
    ELSE LET a == Head(incoming)
         IN MergeMainMutPrepend(
                IF \A k \in 1..Len(all) : all[k].openalex_id # a.openalex_id
                THEN <<a>> \o all
                ELSE Replace(all, a),
                Tail(incoming))

RECURSIVE MergeMain(_, _)
MergeMain(all, incoming) ==
    IF incoming = <<>> THEN all
    ELSE LET a == Head(incoming)
         IN MergeMain(IF \A k \in 1..Len(all) : all[k].openalex_id # a.openalex_id
                      THEN Append(all, a)
                      ELSE Replace(all, a),
                      Tail(incoming))

\* all orders of the rows of d
RowOrders(d) ==
    {[k \in 1..Len(d) |-> d[f[k]]] :
        f \in {g \in [1..Len(d) -> 1..Len(d)] :
                 \A a, b \in 1..Len(d) : g[a] = g[b] => a = b}}

DescendingByHIndex(s) == \A k \in 1..(Len(s) - 1) : s[k].h_index >= s[k + 1].h_index

\* df.sort_values("h_index", ascending=False): one key, kind='quicksort' (the
\* default), which is not a stable sort: rows of equal h_index come out in
\* an order the sort algorithm picks
SortByHIndex(d) == {s \in RowOrders(d) : DescendingByHIndex(s)}

\* extraer_openalex.main: df.drop_duplicates(subset=["openalex_id"]) and then
\* df.sort_values("h_index", ascending=False): the frames it may leave
ExtraerDedup(frame) == SortByHIndex(DropDuplicates(frame, "openalex_id"))

\* MetricsCalculator._clean_data: drop_duplicates(subset='scholar_id', keep='first')
CleanDataDedup(frame) == DropDuplicates(frame, "scholar_id")

\* the lists a step may leave: one, but for the order of equal h_index
\* after the sort of extraer_openalex.main
Reconcile(k, recs) ==
    CASE k = "topics"     -> {TopicsAdd(<<>>, recs)}
      [] k = "main"       -> {MergeMain(<<>>, recs)}
      [] k = "extraer"    -> ExtraerDedup(recs)
      [] k = "clean_data" -> {CleanDataDedup(recs)}

MakeRecord(k, i, c, h, p) ==
    CASE k = "topics"     -> ApiAuthor(i, c, h, p)
      [] k = "main"       -> ParsedAuthor(i, c, h, p)
      [] k = "extraer"    -> ChileAuthor(i, c, h, p)
      [] k = "clean_data" -> ScholarAuthor(i, c, h, p)

\* the identifier and the numeric fields of a record, whatever its step
IdOf(r) ==
    IF "id" \in DOMAIN r THEN r.id
    ELSE IF "openalex_id" \in DOMAIN r THEN r.openalex_id
    ELSE r.scholar_id

CitasOf(r) ==
    IF "citas" \in DOMAIN r THEN r.citas
    ELSE IF "cited_by_count" \in DOMAIN r THEN r.cited_by_count
    ELSE r.citations

NoRepeatedId(s) == \A j, k \in 1..Len(s) : IdOf(s[j]) = IdOf(s[k]) => j = k

\* main merges authors_by_topics + authors_by_inst: each list comes out of a
\* fetch function, so it repeats no identifier, and the first has no record
\* without one
FromTwoFetches(s) ==
    \E n \in 0..Len(s) :
        /\ NoRepeatedId(SubSeq(s, 1, n))
        /\ \A k \in 1..n : IdOf(s[k]) # 0
        /\ NoRepeatedId(SubSeq(s, n + 1, Len(s)))

\* the display names a record arrives with: none, or one of two spellings
DisplayNames == {"", "P. Navia", "Patricio Navia"}

\* the display name ("nombre" of parse_author) next to the numeric fields,
\* for the steps that choose between two records of one author
WithName(k, r, name) ==
    IF k \in {"topics", "main"} THEN r @@ ("nombre" :> name) ELSE r

RecStart ==
    /\ rk \in {"topics", "main", "extraer", "clean_data"}
    /\ rpc = "in"
    /\ rout = <<>>
    /\ ragain = <<>>
    /\ \E n \in 1..MaxRecs :
         \E ids \in [1..n -> 0..MaxId], cs \in [1..n -> 0..MaxCitas] :
            \/ \E hs \in [1..n -> 0..MaxH] :
                  rin = [p \in 1..n |->
                           WithName(rk, MakeRecord(rk, ids[p], cs[p], hs[p], p), "")]
            \/ /\ rk \in {"topics", "main"}
               /\ \E names \in [1..n -> DisplayNames] :
                     rin = [p \in 1..n |->
                              WithName(rk, MakeRecord(rk, ids[p], cs[p], 0, p), names[p])]
    /\ rk = "main" => FromTwoFetches(rin)

RunReconcile ==
    /\ rpc = "in"
    /\ rpc' = "out"
    /\ rout' \in Reconcile(rk, rin)
    /\ UNCHANGED <<rk, rin, ragain, notRec>>

\* the same step handed what it left
ReconcileAgain ==
    /\ rpc = "out"
    /\ rpc' = "again"
    /\ ragain' \in Reconcile(rk, rout)
    /\ UNCHANGED <<rk, rin, rout, notRec>>

InitReconcile == RecStart /\ IdleFetch /\ IdleClean /\ IdleMetrics /\ IdleScrape /\ IdleSerp /\ IdleAdd

NextReconcile == RunReconcile \/ ReconcileAgain

SpecReconcile == InitReconcile /\ [][NextReconcile]_vars

(***************************************************************************)
(* Claims about reconciliation                                             *)
(***************************************************************************)
\* C4: in the merge of openalex_scraper.main and in _clean_data, of the
\* records that share an identifier the one left is one with the highest
\* citation count (so 100/10 against 80/12 leaves 100/10), whichever arrived
\* first.
C4_HigherCitationsWins ==
    rpc \in {"out", "again"} /\ rk \in {"main", "clean_data"} =>
        \A o \in 1..Len(rout), i \in 1..Len(rin) :
            IdOf(rout[o]) # 0 /\ IdOf(rin[i]) = IdOf(rout[o])
                => CitasOf(rin[i]) <= CitasOf(rout[o])

\* the same statement holds of the merge of openalex_scraper.main alone
C4_MainMergeKeepsHigher == rk = "main" => C4_HigherCitationsWins

\* C5: after each reconciliation step no two records left share an
\* identifier, every identifier of the input is on exactly one record left,
\* and every record left is a record of the input.  A record without an
\* identifier (id 0) has none to keep: the per-page dedup skips it, the other
\* steps treat the empty identifier like any other.
C5_OneRecordPerId ==
    rpc \in {"out", "again"} =>
        /\ NoRepeatedId(rout)
        /\ \A i \in 1..Len(rin) :
             (IdOf(rin[i]) # 0 \/ rk # "topics") =>
                Cardinality({o \in 1..Len(rout) : IdOf(rout[o]) = IdOf(rin[i])}) = 1
        /\ \A o \in 1..Len(rout) : rout[o] = rin[rout[o].pos]
        /\ rk = "topics" => \A o \in 1..Len(rout) : IdOf(rout[o]) # 0

C5_Witness ==
    /\ rpc = "out" /\ rk = "main"
    /\ Len(rin) = 2 /\ Len(rout) = 1
    /\ rout[1].pos = 2

\* C22: the merge of openalex_scraper.main and the dedup of _clean_data,
\* handed the records they left, leave the same records, in the same order
\* and field for field.
C22_ReconcileIdempotent ==
    (rpc = "again" /\ rk \in {"main", "clean_data"}) => ragain = rout

\* the other two steps leave the records they are handed back as well, the
\* sorted one up to the order of records of equal h_index
C22_EveryStepIdempotent ==
    rpc = "again" =>
        /\ rk # "extraer" => ragain = rout
        /\ {ragain[k] : k \in 1..Len(ragain)} = {rout[k] : k \in 1..Len(rout)}
        /\ Len(ragain) = Len(rout)

\* two records of one identifier, the later with more citations, left as one
C22_Witness ==
    /\ rpc = "again" /\ rk = "main"
    /\ Len(rin) = 2 /\ Len(rout) = 1 /\ ragain = rout
    /\ rout[1].pos = 2

\* the records of the input that carry the identifier of a record left
Group(o) == {i \in 1..Len(rin) : IdOf(rin[i]) = IdOf(rout[o])}

\* those of them that supply a display name
Named(o) == {i \in Group(o) : rin[i].nombre # ""}

\* C24: where two records of one identifier were merged, the display name
\* of the record left is the non-empty one if one of the two has a name,
\* and that of the later retrieved record if both have.
C24_NonNumericFieldsMerged ==
    (rpc = "out" /\ rk \in {"main", "topics"}) =>
        \A o \in 1..Len(rout) :
            Cardinality(Group(o)) = 2 =>
                /\ Cardinality(Named(o)) = 1 =>
                     \A i \in Named(o) : rout[o].nombre = rin[i].nombre
                /\ Cardinality(Named(o)) = 2 =>
                     \A i \in Named(o) :
                        (\A j \in Named(o) : j <= i) => rout[o].nombre = rin[i].nombre

\* the steps whose records are the dicts an adapter returns
AdapterSteps == {"main", "extraer", "clean_data"}

\* C27: the records of every adapter have one and the same set of field
\* names, that of the records of the Scholar adapters, whichever backend
\* produced them (stated of the records a reconciliation step leaves).
C27_CommonShape ==
    (rk \in AdapterSteps /\ rpc = "out") =>
        \A k \in 1..Len(rout) :
            /\ (DOMAIN rout[k]) \ {"pos"} \subseteq RecordFields(rk)
            /\ RecordFields(rk) = ExtractAuthorDataFields
            /\ RecordFields(rk) = ParseAuthorPageFields
            /\ RecordFields(rk) = SerpAuthorFields

\* the part of C27 that holds: the three Scholar adapters (scholarly, direct
\* HTML, paid API) return the same fifteen field names
C27_ScholarAdaptersAgree ==
    (rk = "clean_data" /\ rpc = "in") =>
        \A k \in 1..Len(rin) :
            /\ (DOMAIN rin[k]) \ {"pos"} \subseteq RecordFields(rk)
            /\ RecordFields(rk) = ParseAuthorPageFields
            /\ RecordFields(rk) = SerpAuthorFields
            /\ Cardinality(RecordFields(rk)) = 15

(***************************************************************************)
(* procesar_ranking.py: cargar_datos, limpiar_datos, filtrar_por_hindex,   *)
(* agregar_disciplina, agregar_scholar_ids and the final sort of main.     *)
(* A DataFrame is the list of its rows; `idx` is a row's index label.      *)
(* Names are written without diacritics.                                   *)
(***************************************************************************)
EXCLUIR_NOMBRES ==
    {"Arend Lijphart", "Alain Touraine", "Max Weber", "Harold H. Joachim",
     "Marisa Bucheli", "Andrea Vigorito", "Adolfo Garce", "Liliana de Riz",
     "Guillermo Duran", "Ricardo Paes de Barros", "Travis Gagie",
     "Diana Fletschner", "Diana Kruger", "Jose Gabriel Palma",
     "Fernando Gutierrez Hidalgo", "Pablo A. Miranda", "W.G.P. Kumari",
     "Stefano Novellani", "J. Arzua", "Fernando Alonso", "Pablo Gonzalez",
     "Carola Blazquez", "Antonio Galvao Novaes", "Juan M. Corchado"}

EXCLUIR_AFILIACIONES ==
    {"Gobierno de Chile", "Partnership for Economic Policy", "World Bank Group",
     "World Health Organization", "University of Cambridge",
     "Vellore Institute of Technology", "University of Wollongong",
     "McGill University", "Dalhousie University", "IFP Energies nouvelles",
     "Universitat de Barcelona", "Universidad Complutense de Madrid",
     "Universidad de Buenos Aires", "Universidade de Vigo",
     "Hospital Universitario de Canarias", "Universidad de la Republica"}

CAMPOS_EXCLUIR ==
    {"Computer Science", "Engineering", "Mathematics", "Physics and Astronomy",
     "Environmental Science", "Medicine", "Neuroscience"}

\* some entries of SCHOLAR_IDS_CONOCIDOS; {2010} stands for the character
\* U+2010 (hyphen), {2013} for U+2013 (en dash), {00ED} for i with acute
\* accent and {00E1} for a with acute accent
SCHOLAR_IDS_CONOCIDOS ==
    [n \in {"David Altman", "Patricio Navia", "Juan-Carlos Ferrer",
             "Juan{2010}Carlos Ferrer", "Dar{00ED}o P{00E1}ez"} |->
        CASE n = "David Altman"            -> "oZGkFZoAAAAJ"
          [] n = "Patricio Navia"          -> "IBcs-ZwAAAAJ"
          [] n = "Juan-Carlos Ferrer"      -> "1N8BNr8AAAAJ"
          [] n = "Juan{2010}Carlos Ferrer" -> "1N8BNr8AAAAJ"
          [] n = "Dar{00ED}o P{00E1}ez"    -> "KVva2AIAAAAJ"]

\* an empty CSV cell as pandas reads it
NaN == "NaN"

\* the values the identity columns of a source row take
Nombres == {"Max Weber", "David Altman"}
Instituciones == {"Gobierno de Chile", "University of Chile"}
Campos == {"Medicine", "Social Sciences"}
Paises == {"CL", "AR", NaN}

\* the topics cell of a row: the text "; ".join(topics_names), held as the
\* list of the names joined, or an empty cell
TopicsText(names) == [t |-> "str", names |-> names]
TopicsNaN == [t |-> "nan", names |-> <<>>]

\* topic names of the model and the rule keywords each contains once it is
\* lower-cased (`x in topics` is a substring test)
TopicNames ==
    {"Political Theory", "Social Movement Studies", "Labor Market Dynamics",
     "Psychology of Aging", "Teacher Training", "Journalism Ethics",
     "Economic Sociology", "Media Education", "Urban Planning"}

\* str.lower()
Lower(name) ==
    CASE name = "Political Theory"        -> "political theory"
      [] name = "Social Movement Studies" -> "social movement studies"
      [] name = "Labor Market Dynamics"   -> "labor market dynamics"
      [] name = "Psychology of Aging"     -> "psychology of aging"
      [] name = "Teacher Training"        -> "teacher training"
      [] name = "Journalism Ethics"       -> "journalism ethics"
      [] name = "Economic Sociology"      -> "economic sociology"
      [] name = "Media Education"         -> "media education"
      [] name = "Urban Planning"          -> "urban planning"
      [] OTHER -> name

\* the rule keywords that are substrings of a text
KeywordsIn(text) ==
    CASE text = "political theory"        -> {"political"}
      [] text = "social movement studies" -> {"social movement"}
      [] text = "labor market dynamics"   -> {"labor market"}
      [] text = "psychology of aging"     -> {"psycholog"}
      [] text = "teacher training"        -> {"teacher"}
      [] text = "journalism ethics"       -> {"journalism"}
      [] text = "economic sociology"      -> {"economic", "sociolog"}
      [] text = "media education"         -> {"media", "education"}
      [] OTHER -> {}

\* a row of investigadores_openalex_*.csv as openalex_scraper.save_results
\* writes it
ScraperRow(n, i, c, p, h, ci, k) ==
    [nombre |-> n, institucion |-> i, campo_principal |-> c,
     pais_institucion |-> p, h_index |-> h, citas |-> ci,
     topics |-> TopicsText(<<"Economic Sociology">>), idx |-> k]

\* a row of the CSV extraer_openalex.main writes
ExtraerRow(n, i, c, p, h, ci, k) ==
    [nombre |-> n, institucion |-> i, campo_principal |-> c,
     pais |-> p, h_index |-> h, cited_by_count |-> ci, idx |-> k]

\* a row of a CSV that has neither a "pais" nor a "pais_institucion" column
SinPaisRow(n, i, c, h, ci, k) ==
    [nombre |-> n, institucion |-> i, campo_principal |-> c,
     h_index |-> h, citas |-> ci, idx |-> k]

\* a row of a CSV that has no country column and no citation column
SinCitasRow(n, i, c, h, k) ==
    [nombre |-> n, institucion |-> i, campo_principal |-> c, h_index |-> h, idx |-> k]

\* cargar_datos: df.rename(columns={"cited_by_count": "citas", "pais": "pais_institucion"})
Rename(r) ==
    [f \in {IF g = "cited_by_count" THEN "citas"
            ELSE IF g = "pais" THEN "pais_institucion" ELSE g : g \in DOMAIN r} |->
        IF f = "citas" /\ "cited_by_count" \in DOMAIN r THEN r.cited_by_count
        ELSE IF f = "pais_institucion" /\ "pais" \in DOMAIN r THEN r.pais
        ELSE r[f]]

\* cargar_datos: if "citas" not in df.columns ...: df["citas"] = 0
AsegurarCitas(r) ==
    IF "citas" \in DOMAIN r THEN r
    ELSE [f \in DOMAIN r \cup {"citas"} |-> IF f = "citas" THEN 0 ELSE r[f]]

\* the frame cargar_datos returns for the rows of a CSV
RenameAll(rows) == [k \in 1..Len(rows) |-> AsegurarCitas(Rename(rows[k]))]

\* limpiar_datos, one rule at a time
SinNombresExcluidos(d) == SelectSeq(d, LAMBDA r : r.nombre \notin EXCLUIR_NOMBRES)

SinAfiliacionesExcluidasMutSkip(d) == d

SinAfiliacionesExcluidas(d) ==
    SelectSeq(d, LAMBDA r : r.institucion \notin EXCLUIR_AFILIACIONES)

SinCamposExcluidos(d) ==
    SelectSeq(d, LAMBDA r : r.campo_principal \notin CAMPOS_EXCLUIR)

SoloChile(d, columns) ==
    IF "pais_institucion" \in columns
    THEN SelectSeq(d, LAMBDA r : r.pais_institucion = "CL")
    ELSE IF "pais" \in columns
    THEN SelectSeq(d, LAMBDA r : r.pais = "CL")
    ELSE d

limpiar_datos(d, columns) ==
    SoloChile(SinCamposExcluidos(SinAfiliacionesExcluidas(SinNombresExcluidos(d))),
              columns)

\* the four "Despues de ..." counts limpiar_datos prints, in order
limpiar_datos_prints(d, columns) ==
    LET d1 == SinNombresExcluidos(d)
        d2 == SinAfiliacionesExcluidas(d1)
        d3 == SinCamposExcluidos(d2)
        d4 == SoloChile(d3, columns)
    IN  <<Len(d1), Len(d2), Len(d3), Len(d4)>>

\* a threshold that also drops the rows of the lowest h_index of the frame
filtrar_por_hindexMutDropLowest(d, minimo) ==
    SelectSeq(d, LAMBDA r : /\ r.h_index >= minimo
                            /\ \E k \in 1..Len(d) : d[k].h_index < r.h_index)

filtrar_por_hindexMutDefault(d, minimo) ==
    SelectSeq(d, LAMBDA r : r.h_index >= H_INDEX_MINIMO)

filtrar_por_hindex(d, minimo) == SelectSeq(d, LAMBDA r : r.h_index >= minimo)

\* row.get("topics", "").lower(), as the list of the lower-cased names
TopicsLower(row) ==
    IF "topics" \in DOMAIN row
    THEN [k \in 1..Len(row.topics.names) |-> Lower(row.topics.names[k])]
    ELSE <<>>

\* any(x in topics for x in keywords)
AnyInMutAll(keywords, topics) ==
    \E k \in 1..Len(topics) : keywords \subseteq KeywordsIn(topics[k])

AnyIn(keywords, topics) ==
    \E k \in 1..Len(topics) : keywords \cap KeywordsIn(topics[k]) # {}

\* "Business" in campo, for the field labels of OpenAlex
ContainsBusiness(campo) == campo \in {"Business", "Business, Management and Accounting"}

\* the topic rules of clasificar_disciplina all fail
NoTopicRule(campo, topics) ==
    /\ ~AnyIn({"political", "electoral", "democracy", "populism", "governance",
               "international relations"}, topics)
    /\ ~AnyIn({"sociolog", "social stratification", "inequality",
               "social movement", "cultural"}, topics)
    /\ ~(campo = "Economics, Econometrics and Finance"
         \/ AnyIn({"economic", "labor market", "fiscal", "trade"}, topics))
    /\ ~(campo = "Psychology" \/ AnyIn({"psycholog"}, topics))
    /\ ~AnyIn({"education", "school", "teacher"}, topics)
    /\ ~AnyIn({"media", "communication", "journalism"}, topics)

\* clasificar_disciplina(row) raises: .lower() of an empty topics cell (a
\* float), or `"Business" in campo` of an empty campo_principal cell
clasificar_disciplina_raises(row) ==
    LET campo == IF "campo_principal" \in DOMAIN row THEN row.campo_principal ELSE ""
    IN  \/ "topics" \in DOMAIN row /\ row.topics.t = "nan"
        \/ /\ campo = NaN
           /\ NoTopicRule(campo, TopicsLower(row))

\* clasificar_disciplina(row)
clasificar_disciplina(row) ==
    LET campo  == IF "campo_principal" \in DOMAIN row THEN row.campo_principal ELSE ""
        topics == TopicsLower(row)
    IN  IF AnyIn({"political", "electoral", "democracy", "populism", "governance",
                  "international relations"}, topics)
        THEN "Ciencia Politica"
        ELSE IF AnyIn({"sociolog", "social stratification", "inequality",
                       "social movement", "cultural"}, topics)
        THEN "Sociologia"
        ELSE IF campo = "Economics, Econometrics and Finance"
                \/ AnyIn({"economic", "labor market", "fiscal", "trade"}, topics)
        THEN "Economia"
        ELSE IF campo = "Psychology" \/ AnyIn({"psycholog"}, topics)
        THEN "Psicologia"
        ELSE IF AnyIn({"education", "school", "teacher"}, topics)
        THEN "Educacion"
        ELSE IF AnyIn({"media", "communication", "journalism"}, topics)
        THEN "Comunicacion"
        ELSE IF campo = "Social Sciences"
        THEN "Ciencias Sociales"
        ELSE IF campo = "Arts and Humanities"
        THEN "Humanidades"
        ELSE IF ContainsBusiness(campo)
        THEN "Administracion"
        ELSE "Ciencias Sociales"

\* a row with one more column
WithColumn(r, name, v) ==
    [f \in DOMAIN r \cup {name} |-> IF f = name THEN v ELSE r[f]]

agregar_disciplina(d) ==
    [k \in 1..Len(d) |-> WithColumn(d[k], "disciplina", clasificar_disciplina(d[k]))]

\* nombre.replace(U+2010, "-").replace(U+2013, "-") on the hyphenated names
\* of the model; any other name has neither character
NormalizarGuiones(nombre) ==
    CASE nombre = "Juan{2010}Carlos Ferrer" -> "Juan-Carlos Ferrer"
      [] nombre = "Juan{2013}Carlos Ferrer" -> "Juan-Carlos Ferrer"
      [] OTHER -> nombre

buscar_scholar_id(nombre, afiliacion) ==
    IF nombre \in DOMAIN SCHOLAR_IDS_CONOCIDOS
    THEN SCHOLAR_IDS_CONOCIDOS[nombre]
    ELSE IF NormalizarGuiones(nombre) \in DOMAIN SCHOLAR_IDS_CONOCIDOS
    THEN SCHOLAR_IDS_CONOCIDOS[NormalizarGuiones(nombre)]
    ELSE ""

agregar_scholar_ids(d) ==
    [k \in 1..Len(d) |->
        WithColumn(d[k], "scholar_id", buscar_scholar_id(d[k].nombre, d[k].institucion))]

\* .reset_index(drop=True); df["ranking"] = range(1, len(df) + 1)
AssignRanking(s) == [k \in 1..Len(s) |-> WithColumn(s[k], "ranking", k)]

\* the field labels the classification tells apart, and an empty cell
ClasifCampos ==
    {"Social Sciences", "Economics, Econometrics and Finance", "Psychology",
     "Arts and Humanities", "Business, Management and Accounting",
     "Decision Sciences", NaN}

\* the topics cells of a row: an empty cell or 1..MaxTopics topic names
TopicsCells ==
    {TopicsNaN} \cup
    {TopicsText(names) : names \in UNION {[1..n -> TopicNames] : n \in 1..MaxTopics}}

\* rows that pass every identity rule, one of them possibly replaced by a
\* row with any combination of name, affiliation, field and country
IdentityTable ==
    /\ fmt \in {"scraper", "extraer"}
    /\ h_index_minimo = H_INDEX_MINIMO
    /\ \E n \in 1..TableRows :
         \E hs \in [1..n -> 0..TableMaxH], cs \in [1..n -> 0..TableMaxCitas],
            probe \in 0..n, nom \in Nombres, ins \in Instituciones,
            cam \in Campos, pa \in Paises :
              csv = [k \in 1..n |->
                       LET mk(a, b, c, e) ==
                             IF fmt = "scraper"
                             THEN ScraperRow(a, b, c, e, hs[k], cs[k], k)
                             ELSE ExtraerRow(a, b, c, e, hs[k], cs[k], k)
                       IN IF k = probe THEN mk(nom, ins, cam, pa)
                          ELSE mk("David Altman", "University of Chile",
                                  "Social Sciences", "CL")]

\* one row that passes every filter, with any field label and topics cell
ClassificationTable ==
    /\ fmt \in {"scraper", "extraer"}
    /\ h_index_minimo = H_INDEX_MINIMO
    /\ \E cam \in ClasifCampos, tp \in TopicsCells :
         csv = <<IF fmt = "scraper"
                 THEN [ScraperRow("David Altman", "University of Chile", cam, "CL",
                                  H_INDEX_MINIMO, 0, 1) EXCEPT !.topics = tp]
                 ELSE ExtraerRow("David Altman", "University of Chile", cam, "CL",
                                 H_INDEX_MINIMO, 0, 1),
                 IF fmt = "scraper"
                 THEN ScraperRow("David Altman", "University of Chile",
                                 "Social Sciences", "CL", H_INDEX_MINIMO, 0, 2)
                 ELSE ExtraerRow("David Altman", "University of Chile",
                                 "Social Sciences", "CL", H_INDEX_MINIMO, 0, 2)>>

\* a table without any country column, with or without a citation column,
\* its rows passing the first three rules
NoCountryTable ==
    /\ fmt \in {"sin_pais", "sin_citas"}
    /\ h_index_minimo = H_INDEX_MINIMO
    /\ \E n \in 1..TableRows :
         \E hs \in [1..n -> 0..TableMaxH] :
            csv = [k \in 1..n |->
                     IF fmt = "sin_pais"
                     THEN SinPaisRow("David Altman", "University of Chile",
                                     "Social Sciences", hs[k], 0, k)
                     ELSE SinCitasRow("David Altman", "University of Chile",
                                      "Social Sciences", hs[k], k)]

\* the minimum of filtrar_por_hindex(df, minimo)
Minimos == {H_INDEX_MINIMO, H_INDEX_MINIMO + 1}

\* rows of any name, country and h_index, put to a threshold of 1 or 2
ThresholdTable ==
    /\ fmt = "scraper"
    /\ h_index_minimo \in Minimos
    /\ \E n \in 1..TableRows :
         \E noms \in [1..n -> Nombres], pas \in [1..n -> {"CL", "AR"}],
            hs \in [1..n -> 0..ThreshMaxH] :
              csv = [k \in 1..n |->
                       ScraperRow(noms[k], "University of Chile", "Social Sciences",
                                  pas[k], hs[k], 0, k)]

\* display names as the source CSV spells them: registry keys, the same
\* names with another hyphen character or without accents, and a name the
\* registry does not hold
RegistryNames ==
    {"Juan-Carlos Ferrer", "Juan{2010}Carlos Ferrer", "Juan{2013}Carlos Ferrer",
     "Dar{00ED}o P{00E1}ez", "Dario Paez", "Max Planck"}

\* rows that pass every filter, under any of the display names
RegistryTable ==
    /\ fmt = "extraer"
    /\ h_index_minimo = H_INDEX_MINIMO
    /\ \E n \in 1..TableRows :
         \E noms \in [1..n -> RegistryNames] :
            csv = [k \in 1..n |->
                     ExtraerRow(noms[k], "University of Chile", "Social Sciences",
                                "CL", H_INDEX_MINIMO, 0, k)]

\* the source CSV
CleanStart ==
    /\ cpc = "start"
    /\ df = <<>>
    /\ cols = {}
    /\ printed = <<>>
    /\ (IdentityTable \/ ClassificationTable \/ NoCountryTable \/ ThresholdTable
          \/ RegistryTable)

cargar_datos ==
    /\ cpc = "start"
    /\ cpc' = "loaded"
    /\ df' = RenameAll(csv)
    /\ cols' = IF fmt = "scraper"
               THEN {"nombre", "institucion", "campo_principal", "pais_institucion",
                     "h_index", "citas", "topics"}
               ELSE IF fmt = "extraer"
               THEN {"nombre", "institucion", "campo_principal", "pais_institucion",
                     "h_index", "citas"}
               ELSE {"nombre", "institucion", "campo_principal", "h_index", "citas"}
    /\ UNCHANGED <<fmt, h_index_minimo, printed, csv, notClean>>

LimpiarDatos ==
    /\ cpc = "loaded"
    /\ cpc' = "cleaned"
    /\ df' = limpiar_datos(df, cols)
    /\ printed' = limpiar_datos_prints(df, cols)
    /\ UNCHANGED <<fmt, h_index_minimo, csv, cols, notClean>>

FiltrarPorHindex ==
    /\ cpc = "cleaned"
    /\ cpc' = "filtered"
    /\ df' = filtrar_por_hindex(df, h_index_minimo)
    /\ printed' = Append(printed, Len(filtrar_por_hindex(df, h_index_minimo)))
    /\ UNCHANGED <<fmt, h_index_minimo, csv, cols, notClean>>

\* df["disciplina"] = df.apply(clasificar_disciplina, axis=1): an exception
\* of one row leaves main.  On a frame without rows apply calls the function
\* on a placeholder row to guess the result; depending on the pandas release
\* it hands back an empty Series, or (the function raising on the
\* placeholder) a copy of the frame, whose assignment to one column raises
\* ValueError.
AgregarDisciplina ==
    /\ cpc = "filtered"
    /\ IF \E k \in 1..Len(df) : clasificar_disciplina_raises(df[k])
       THEN cpc' = "raised" /\ UNCHANGED <<df, cols>>
       ELSE \/ /\ cpc' = "classified"
               /\ df' = agregar_disciplina(df)
               /\ cols' = cols \cup {"disciplina"}
            \/ /\ df = <<>>
               /\ cpc' = "raised_empty"
               /\ UNCHANGED <<df, cols>>
    /\ UNCHANGED <<fmt, h_index_minimo, printed, csv, notClean>>

\* df["scholar_id"] = df.apply(lambda row: buscar_scholar_id(...), axis=1).  On
\* a frame without rows apply calls the lambda on a placeholder row, the
\* lambda raises on it (row["nombre"], or nombre.replace of NaN), apply hands
\* back a copy of the frame, and its assignment to one column raises
\* ValueError.
AgregarScholarIds ==
    /\ cpc = "classified"
    /\ IF df = <<>>
       THEN cpc' = "raised_empty" /\ UNCHANGED <<df, cols>>
       ELSE /\ cpc' = "identified"
            /\ df' = agregar_scholar_ids(df)
            /\ cols' = cols \cup {"scholar_id"}
    /\ UNCHANGED <<fmt, h_index_minimo, printed, csv, notClean>>

OrdenarYRankear ==
    /\ cpc = "identified"
    /\ cpc' = "ranked"
    /\ \E s \in SortByHIndex(df) : df' = AssignRanking(s)
    /\ cols' = cols \cup {"ranking"}
    /\ UNCHANGED <<fmt, h_index_minimo, printed, csv, notClean>>

InitClean == CleanStart /\ IdleFetch /\ IdleRec /\ IdleMetrics /\ IdleScrape /\ IdleSerp /\ IdleAdd

NextClean ==
    \/ cargar_datos
    \/ LimpiarDatos
    \/ FiltrarPorHindex
    \/ AgregarDisciplina
    \/ AgregarScholarIds
    \/ OrdenarYRankear

SpecClean == InitClean /\ [][NextClean]_vars

(***************************************************************************)
(* Claims about procesar_ranking                                           *)
(***************************************************************************)
\* the row of the source CSV a row of df comes from
Source(r) == AsegurarCitas(Rename(csv[r.idx]))

\* C6: no row whose name is in EXCLUIR_NOMBRES, whose affiliation is in
\* EXCLUIR_AFILIACIONES or whose field is in CAMPOS_EXCLUIR is in the final
\* ranking, whatever its h_index and citas.
C6_ExcludedNeverRanked ==
    cpc = "ranked" =>
        \A k \in 1..Len(df) :
            /\ df[k].nombre \notin EXCLUIR_NOMBRES
            /\ df[k].institucion \notin EXCLUIR_AFILIACIONES
            /\ df[k].campo_principal \notin CAMPOS_EXCLUIR
            /\ Source(df[k]).nombre = df[k].nombre
            /\ Source(df[k]).institucion = df[k].institucion
            /\ Source(df[k]).campo_principal = df[k].campo_principal

C6_Witness ==
    /\ cpc = "ranked"
    /\ Len(csv) = 2 /\ Len(df) = 1
    /\ \E k \in 1..Len(csv) :
         /\ csv[k].institucion = "Gobierno de Chile"
         /\ csv[k].nombre = "David Altman"
         /\ csv[k].campo_principal = "Social Sciences"
         /\ csv[k].h_index = TableMaxH
         /\ df[1].idx # k

\* the six rules in their order: the label, the keywords looked for in the
\* lower-cased topic text, the raw field labels the rule also accepts
Rules ==
    <<[label |-> "Ciencia Politica", campos |-> {},
       keywords |-> {"political", "electoral", "democracy", "populism", "governance",
                     "international relations"}],
      [label |-> "Sociologia", campos |-> {},
       keywords |-> {"sociolog", "social stratification", "inequality",
                     "social movement", "cultural"}],
      [label |-> "Economia", campos |-> {"Economics, Econometrics and Finance"},
       keywords |-> {"economic", "labor market", "fiscal", "trade"}],
      [label |-> "Psicologia", campos |-> {"Psychology"}, keywords |-> {"psycholog"}],
      [label |-> "Educacion", campos |-> {},
       keywords |-> {"education", "school", "teacher"}],
      [label |-> "Comunicacion", campos |-> {},
       keywords |-> {"media", "communication", "journalism"}]>>

\* the rules that match a row of the source CSV
Matching(r) ==
    LET found == IF "topics" \in DOMAIN r
                 THEN UNION {KeywordsIn(Lower(r.topics.names[k])) :
                               k \in 1..Len(r.topics.names)}
                 ELSE {}
    IN  {i \in 1..Len(Rules) :
           Rules[i].keywords \cap found # {} \/ r.campo_principal \in Rules[i].campos}

\* the label mapped from the raw field label, the default otherwise
FieldLabel(campo) ==
    CASE campo = "Social Sciences" -> "Ciencias Sociales"
      [] campo = "Arts and Humanities" -> "Humanidades"
      [] campo \in {"Business", "Business, Management and Accounting"} -> "Administracion"
      [] OTHER -> "Ciencias Sociales"

NineLabels ==
    {"Ciencia Politica", "Sociologia", "Economia", "Psicologia", "Educacion",
     "Comunicacion", "Ciencias Sociales", "Humanidades", "Administracion"}

\* C11: clasificar_disciplina returns the label of the first rule that
\* matches, in the order Ciencia Politica, Sociologia, Economia, Psicologia,
\* Educacion, Comunicacion, even when later rules match too; when none
\* matches, the label mapped from the raw field label, else the default; the
\* result is one of the nine labels.
C11_FirstMatchWins ==
    cpc \in {"classified", "identified", "ranked"} =>
        \A k \in 1..Len(df) :
            LET r == csv[df[k].idx]
                m == Matching(r)
            IN  /\ df[k].disciplina \in NineLabels
                /\ m # {} =>
                     df[k].disciplina =
                       Rules[CHOOSE i \in m : \A j \in m : i <= j].label
                /\ m = {} => df[k].disciplina = FieldLabel(r.campo_principal)

\* topics that match Sociologia, Economia, Educacion and Comunicacion and a
\* field label that matches Psicologia: the label is Sociologia
C11_Witness ==
    /\ cpc = "classified" /\ fmt = "scraper" /\ Len(df) = 2
    /\ csv[1].topics = TopicsText(<<"Media Education", "Economic Sociology">>)
    /\ csv[1].campo_principal = "Psychology"
    /\ df[1].disciplina = "Sociologia"

\* the stages of main from limpiar_datos on
AfterCleaning ==
    {"cleaned", "filtered", "classified", "identified", "ranked", "raised", "raised_empty"}

AfterThreshold ==
    {"filtered", "classified", "identified", "ranked", "raised", "raised_empty"}

\* C18: every row that survives limpiar_datos has country code "CL", for
\* every table cargar_datos loads.
C18_SurvivorsAreChilean ==
    cpc \in AfterCleaning =>
        \A k \in 1..Len(df) :
            /\ "pais_institucion" \in DOMAIN df[k]
            /\ df[k].pais_institucion = "CL"

\* C18 for the tables that have a country column ("pais" or
\* "pais_institucion"): every row that survives limpiar_datos has "CL" there
C18_ChileanWhenColumnPresent ==
    (cpc \in AfterCleaning /\ fmt \in {"scraper", "extraer"}) =>
        \A k \in 1..Len(df) : Source(df[k]).pais_institucion = "CL"

\* the country cell of a row of the source table, under either column name
Country(r) == IF "pais" \in DOMAIN r THEN r.pais ELSE r.pais_institucion

\* the identity rules of limpiar_datos, numbered in the order of the claim
Rule(i, r) ==
    CASE i = 1 -> r.nombre \notin EXCLUIR_NOMBRES
      [] i = 2 -> r.institucion \notin EXCLUIR_AFILIACIONES
      [] i = 3 -> r.campo_principal \notin CAMPOS_EXCLUIR
      [] i = 4 -> Country(r) = "CL"

\* the rows of the source table that pass rules 1..i
PassingUpTo(i) ==
    {k \in 1..Len(csv) : \A j \in 1..i : Rule(j, csv[k])}

\* those of them at or above the minimum
AboveMinimum == {k \in PassingUpTo(4) : csv[k].h_index >= h_index_minimo}

\* the index labels of the rows of a frame
Labels(frame) == {frame[k].idx : k \in 1..Len(frame)}

\* C19: for a table with a country column, the counts printed after the
\* name, affiliation, field and country rules are those of the rows passing
\* rules 1..i of the source table, nothing is filtered by h_index before
\* them, and the threshold stage that follows keeps exactly the rows of the
\* four-rule survivors whose h_index is at least the minimum handed to it
\* (1 or 2).
C19_ThresholdAfterIdentityRules ==
    "pais_institucion" \in cols =>
        /\ cpc = "cleaned" =>
             /\ printed = [i \in 1..4 |-> Cardinality(PassingUpTo(i))]
             /\ Labels(df) = PassingUpTo(4)
             /\ Len(df) = Cardinality(PassingUpTo(4))
        /\ cpc \in AfterThreshold =>
             /\ Len(printed) = 5
             /\ \A i \in 1..4 : printed[i] = Cardinality(PassingUpTo(i))
             /\ printed[5] = Cardinality(AboveMinimum)
             /\ Labels(df) = AboveMinimum
             /\ Len(df) = Cardinality(AboveMinimum)

\* minimum 2: a row of h_index 2 from another country is dropped by the
\* country rule, a Chilean row of h_index 1 by the threshold
C19_Witness ==
    /\ cpc = "filtered" /\ h_index_minimo = 2 /\ Len(csv) = 2
    /\ csv[1].pais_institucion = "AR" /\ csv[1].h_index = 2
    /\ csv[1].nombre = "David Altman"
    /\ csv[2].pais_institucion = "CL" /\ csv[2].h_index = 1
    /\ printed = <<2, 2, 2, 1, 0>>
    /\ df = <<>>

\* C23: limpiar_datos and filtrar_por_hindex applied to what they left leave
\* it as it is, and what they leave are rows of the loaded table, in its
\* order and unchanged field for field.
C23_CleaningIdempotent ==
    cpc = "filtered" =>
        /\ filtrar_por_hindex(limpiar_datos(df, cols), h_index_minimo) = df
        /\ \A k \in 1..Len(df) : df[k] = AsegurarCitas(Rename(csv[df[k].idx]))
        /\ \A j, k \in 1..Len(df) : j < k => df[j].idx < df[k].idx

\* a table of two rows, the first dropped by the country rule, the second
\* kept by every rule and by the threshold
C23_Witness ==
    /\ cpc = "filtered" /\ fmt = "extraer" /\ Len(csv) = 2
    /\ csv[1].pais = "AR" /\ csv[1].h_index = 1
    /\ Len(df) = 1 /\ df[1].idx = 2 /\ df[1].pais_institucion = "CL"

\* removing the accents of a display name (what the lookup would have to do
\* to be insensitive to diacritics)
SinDiacriticos(nombre) ==
    CASE nombre = "Dar{00ED}o P{00E1}ez" -> "Dario Paez"
      [] OTHER -> nombre

\* a display name with its accents removed and its hyphens written "-"
Plegado(nombre) == SinDiacriticos(NormalizarGuiones(nombre))

\* the registry entries a display name denotes, accents and hyphen variant
\* left aside
RegistryMatches(nombre) ==
    {n \in DOMAIN SCHOLAR_IDS_CONOCIDOS : Plegado(n) = Plegado(nombre)}

\* C25: every row gets the registry identifier of its display name, whatever
\* the accents and whichever of "-", U+2010 and U+2013 the name is written
\* with, and the empty identifier when the registry has no such name
C25_LookupInsensitive ==
    cpc \in {"identified", "ranked"} =>
        \A k \in 1..Len(df) :
            /\ \A n \in RegistryMatches(df[k].nombre) :
                   df[k].scholar_id = SCHOLAR_IDS_CONOCIDOS[n]
            /\ RegistryMatches(df[k].nombre) = {} => df[k].scholar_id = ""

\* the part of C25 that holds: the three hyphen characters are one, and a
\* name the registry does not hold gets the empty identifier
C25_HyphenInsensitive ==
    cpc \in {"identified", "ranked"} =>
        \A k \in 1..Len(df) :
            /\ \A n \in DOMAIN SCHOLAR_IDS_CONOCIDOS :
                   NormalizarGuiones(n) = NormalizarGuiones(df[k].nombre)
                       => df[k].scholar_id = SCHOLAR_IDS_CONOCIDOS[n]
            /\ RegistryMatches(df[k].nombre) = {} => df[k].scholar_id = ""

\* C20: no row of the batch makes the pipeline raise.
C20_MalformedRowNeverAborts == cpc # "raised"

\* C8 (final sort of procesar_ranking.main): rows of equal h_index and equal
\* citas keep the order they had in the source table.
C8_SortIsStable ==
    cpc = "ranked" =>
        \A a, b \in 1..Len(df) :
            (a < b /\ df[a].h_index = df[b].h_index /\ df[a].citas = df[b].citas)
                => df[a].idx < df[b].idx

\* C28: the final ranking is in descending order of h_index, rows of equal
\* h_index are in descending order of citas, and the ranking column counts
\* 1, 2, ..., n down the rows.
C28_FinalRankingOrder ==
    cpc = "ranked" =>
        /\ \A k \in 1..Len(df) : df[k].ranking = k
        /\ \A a, b \in 1..Len(df) :
               a < b =>
                   \/ df[a].h_index > df[b].h_index
                   \/ df[a].h_index = df[b].h_index /\ df[a].citas >= df[b].citas

\* the part of C28 that holds: descending h_index, ranking 1..n
C28_DescendingHIndex ==
    cpc = "ranked" =>
        /\ \A k \in 1..Len(df) : df[k].ranking = k
        /\ \A a, b \in 1..Len(df) : a < b => df[a].h_index >= df[b].h_index

(***************************************************************************)
(* metrics.py (MetricsCalculator) and ranking_desde_csv.py                 *)
(* (generar_ranking).  A value of a numeric column as it arrives is a      *)
(* cell: an integer, a number with a fractional part, NaN (an empty cell / *)
(* a missing key) or a text that is no number.  `idx` is a row's index     *)
(* label before reset_index.                                               *)
(* impact_score is held in hundredths (5000 is 50.00).                     *)
(***************************************************************************)
Num(v) == [t |-> "num", v |-> v]
NaNCell == [t |-> "nan", v |-> 0]
TextCell == [t |-> "str", v |-> 0]

\* the number halves / 2, halves odd: 3 is 1.5 and -1 is -0.5
Frac(halves) == [t |-> "frac", v |-> halves]

\* pd.to_numeric(x, errors='coerce')
to_numeric(x) == IF x.t \in {"num", "frac"} THEN x ELSE NaNCell

\* .fillna(0)
fillna(x, v) == IF x.t = "nan" THEN Num(v) ELSE x

\* .astype(int): a float is cut towards zero
astype_int(x) ==
    IF x.t = "frac"
    THEN IF x.v >= 0 THEN x.v \div 2 ELSE 0 - ((0 - x.v) \div 2)
    ELSE x.v

ToInt(x) == astype_int(fillna(to_numeric(x), 0))

\* a dict handed to MetricsCalculator
AuthorDict(id, h, c, h5, i10, aff, ints, mail, k) ==
    [scholar_id |-> id, h_index |-> h, citations |-> c, h_index_5y |-> h5,
     i10_index |-> i10, affiliation |-> aff, interests |-> ints,
     email_domain |-> mail, idx |-> k]

\* a row of the CSV generar_ranking reads
CsvRow(h, c, i10, k) == [h_index |-> h, citations |-> c, i10_index |-> i10, idx |-> k]

\* MetricsCalculator._clean_data
clean_data(rows) ==
    CleanDataDedup(
        [k \in 1..Len(rows) |->
            [rows[k] EXCEPT !.h_index = ToInt(@), !.h_index_5y = ToInt(@),
                            !.i10_index = ToInt(@), !.citations = ToInt(@)]])

\* the h-index/citations coherence test of calculate_consistency_index:
\* cites >= h * h * 0.5
CoherentMutFullSquare(h, cites) == h > 0 /\ cites > 0 /\ cites >= h * h

Coherent(h, cites) == h > 0 /\ cites > 0 /\ 2 * cites >= h * h

\* the body of the loop of calculate_consistency_index
ConsistencyScore(row) ==
    LET s0 == 0
        s1 == IF row.affiliation # NaN /\ Len(row.affiliation) > 5
              THEN s0 + 20 ELSE s0
        s2 == IF row.interests # <<>> /\ Len(row.interests) > 0
              THEN s1 + 20 ELSE s1
        s3 == IF row.email_domain # NaN /\ Len(row.email_domain) > 3
              THEN s2 + 20 ELSE s2
        s4 == IF Coherent(row.h_index, row.citations) THEN s3 + 20 ELSE s3
        s5 == IF row.h_index_5y > 0 THEN s4 + 20 ELSE s4
    IN  s5

calculate_consistency_index(d) == [k \in 1..Len(d) |-> ConsistencyScore(d[k])]

SeqMax(s) == CHOOSE x \in {s[k] : k \in 1..Len(s)} : \A k \in 1..Len(s) : s[k] <= x

SeqMin(s) == CHOOSE x \in {s[k] : k \in 1..Len(s)} : \A k \in 1..Len(s) : x <= s[k]

\* normalize(series) of calculate_impact_score; a value is the fraction n / d
normalizeMutZero(series) ==
    IF SeqMax(series) = SeqMin(series)
    THEN [k \in 1..Len(series) |-> [n |-> 0, d |-> 1]]
    ELSE [k \in 1..Len(series) |->
            [n |-> (series[k] - SeqMin(series)) * 100,
             d |-> SeqMax(series) - SeqMin(series)]]

normalize(series) ==
    LET lo == SeqMin(series)
        hi == SeqMax(series)
    IN  IF hi = lo
        THEN [k \in 1..Len(series) |-> [n |-> 50, d |-> 1]]
        ELSE [k \in 1..Len(series) |-> [n |-> (series[k] - lo) * 100, d |-> hi - lo]]

\* h_norm * 0.4 + cites_norm * 0.3 + h5y_norm * 0.2 + i10_norm * 0.1 of each
\* record, in hundredths, as the exact fraction n / d
ImpactSum(d) ==
    LET col(f) == [k \in 1..Len(d) |-> d[k][f]]
        h_norm     == normalize(col("h_index"))
        cites_norm == normalize(col("citations"))
        h5y_norm   == normalize(col("h_index_5y"))
        i10_norm   == normalize(col("i10_index"))
    IN  [k \in 1..Len(d) |->
            LET a == h_norm[k]
                b == cites_norm[k]
                c == h5y_norm[k]
                e == i10_norm[k]
            IN  [n |-> 10 * (4 * a.n * b.d * c.d * e.d + 3 * b.n * a.d * c.d * e.d
                             + 2 * c.n * a.d * b.d * e.d + 1 * e.n * a.d * b.d * c.d),
                 d |-> a.d * b.d * c.d * e.d]]

\* the code holds the sum as a double.  Each normalised value takes two
\* roundings, each product and each addition one more, and round(2) scales
\* by 100 before it rounds: the double is within about 1e-11 of a hundredth
\* of the exact sum n / d.  NearHalf: the exact sum lies within 5e-10 of a
\* hundredth of the middle between two hundredths, |2 (n % d) - d| * 10^9 <= d,
\* where the double may lie on either side of the middle or on it.
NearHalf(n, d) ==
    LET x == 2 * (n % d) - d
    IN  (IF x < 0 THEN 0 - x ELSE x) <= d \div 1000000000

\* .round(2) of the double: it rounds as the exact sum does unless that is
\* near the middle between two hundredths; there it rounds down or up
\* (38.825 is held as 38.825000000000003 and gives 38.83; a sum 5e-13 of a
\* hundredth above 48.045 is held as 48.045 and gives 48.04).  `up` is the
\* side it falls to.
RoundDouble(n, d, up) ==
    LET q == n \div d
        r == n % d
    IN  IF NearHalf(n, d) THEN (IF up THEN q + 1 ELSE q)
        ELSE IF 2 * r < d THEN q
        ELSE q + 1

\* (h_norm * 0.4 + cites_norm * 0.3 + h5y_norm * 0.2 + i10_norm * 0.1).round(2),
\* in hundredths: the series the doubles of the code may give, one for each
\* choice of sides of the sums that lie near a half
calculate_impact_score(d) ==
    LET sums == ImpactSum(d)
        ties == {k \in 1..Len(d) : NearHalf(sums[k].n, sums[k].d)}
    IN  {[k \in 1..Len(d) |-> RoundDouble(sums[k].n, sums[k].d, k \in T)] :
            T \in SUBSET ties}

\* the order of sort_values(by=['h_index', 'citations'], ascending=[False, False])
BeforeMutIgnoreCitations(a, b) == a.h_index > b.h_index

Before(a, b) ==
    \/ a.h_index > b.h_index
    \/ a.h_index = b.h_index /\ a.citations > b.citations

\* sort_values on two keys sorts with a stable sort (lexsort): a row goes
\* behind every row that is not after it
InsertRow(s, r) ==
    LET n == Cardinality({k \in 1..Len(s) : ~Before(r, s[k])})
    IN  SubSeq(s, 1, n) \o <<r>> \o SubSeq(s, n + 1, Len(s))

RECURSIVE SortValues(_, _)
SortValues(sorted, rest) ==
    IF rest = <<>> THEN sorted
    ELSE SortValues(InsertRow(sorted, Head(rest)), Tail(rest))

\* .reset_index(drop=True); ranking['rank'] = range(1, len(ranking) + 1)
WithRank(s) == [k \in 1..Len(s) |-> WithColumn(s[k], "rank", k)]

\* MetricsCalculator.generate_ranking(), default arguments
generate_ranking(d) ==
    LET c_index == calculate_consistency_index(d)
        scored(impact) == [k \in 1..Len(d) |->
                             WithColumn(WithColumn(d[k], "c_index", c_index[k]),
                                        "impact_score", impact[k])]
    IN  {WithRank(SortValues(<<>>, scored(impact))) : impact \in calculate_impact_score(d)}

\* ranking_desde_csv.generar_ranking up to the ranking it writes
CsvFilter(rows) == SelectSeq(rows, LAMBDA r : r.h_index.t # "nan")

CsvNumeric(rows) ==
    [k \in 1..Len(rows) |->
        [rows[k] EXCEPT !.h_index = ToInt(@), !.citations = ToInt(@),
                        !.i10_index = ToInt(@)]]

\* identifier patterns of n records: the first is 1, each next one repeats
\* an identifier or takes the next unused one
IdPatterns(n) ==
    {ids \in [1..n -> 1..n] :
        \A k \in 1..n : \A v \in 1..(ids[k] - 1) : \E j \in 1..(k - 1) : ids[j] = v}

\* a batch of records that differ in identifier, h_index and citations
RankingBatch ==
    \/ /\ prog = "metrics"
       /\ \E n \in 1..RankRows :
            \E ids \in IdPatterns(n), hs \in [1..n -> 0..RankMaxH],
               cs \in [1..n -> 0..RankMaxC] :
                 authors = [k \in 1..n |->
                              AuthorDict(ids[k], Num(hs[k]), Num(cs[k]), Num(0), Num(0),
                                         NaN, <<>>, NaN, k)]
    \/ /\ prog = "csv"
       /\ \E n \in 1..RankRows :
            \E hs \in [1..n -> {NaNCell, TextCell} \cup {Num(v) : v \in 0..RankMaxH}],
               cs \in [1..n -> 0..RankMaxC] :
                 authors = [k \in 1..n |-> CsvRow(hs[k], Num(cs[k]), Num(0), k)]

\* one record with every combination of what the consistency index reads
ConsistencyBatch ==
    /\ prog = "metrics"
    /\ \E aff \in {NaN, "U. Ch", "UChile"}, ints \in {<<>>, <<"politics">>},
          mail \in {NaN, "u.c", "u.cl"}, h \in 0..ConsMaxH, c \in 0..ConsMaxC,
          h5 \in 0..ConsMaxH5 :
            authors = <<AuthorDict(1, Num(h), Num(c), Num(h5), Num(0), aff, ints, mail, 1)>>

\* a batch of records that differ in the four metrics of the impact score,
\* one batch for each multiset of records
ImpactBatch ==
    /\ prog = "metrics"
    /\ \E n \in 1..ImpactRows :
         \E hs \in [1..n -> 0..ImpactMax], cs \in [1..n -> 0..ImpactMax],
            h5s \in [1..n -> 0..ImpactMax], is \in [1..n -> 0..ImpactMax] :
              /\ \A k \in 1..(n - 1) :
                   LET key(j) == ((hs[j] * (ImpactMax + 1) + cs[j]) * (ImpactMax + 1)
                                  + h5s[j]) * (ImpactMax + 1) + is[j]
                   IN  key(k) <= key(k + 1)
              /\ authors = [k \in 1..n |->
                              AuthorDict(k, Num(hs[k]), Num(cs[k]), Num(h5s[k]),
                                         Num(is[k]), NaN, <<>>, NaN, k)]

\* raw values of a metric: negative, fractional, text, missing, and plain
RawCells ==
    {NaNCell, TextCell} \cup {Num(v) : v \in (0 - RawMax)..RawMax}
        \cup {Frac(2 * v + 1) : v \in (0 - RawMax)..(RawMax - 1)}

\* one record whose h_index and citations are raw values
RawBatch ==
    \/ /\ prog = "metrics"
       /\ \E h \in RawCells, c \in RawCells :
            authors = <<AuthorDict(1, h, c, Num(0), Num(0), NaN, <<>>, NaN, 1)>>
    \/ /\ prog = "csv"
       /\ \E h \in RawCells, c \in RawCells :
            authors = <<CsvRow(h, c, Num(0), 1)>>

\* no record at all: MetricsCalculator([])
EmptyBatch == prog = "metrics" /\ authors = <<>>

\* the columns of pd.DataFrame(rows): the keys of the dicts
FrameColumns(rows) == UNION {DOMAIN rows[k] : k \in 1..Len(rows)}

\* calculate_impact_score and sort_values index the frame by these columns
\* and raise KeyError when one is not there
ScoredColumns == {"h_index", "citations", "h_index_5y", "i10_index"}

generate_ranking_raises(rows) == ~(ScoredColumns \subseteq FrameColumns(rows))

MetricsStart ==
    /\ mpc = "new"
    /\ mdf = <<>>
    /\ ret = "pending"
    /\ (RankingBatch \/ ConsistencyBatch \/ ImpactBatch \/ EmptyBatch \/ RawBatch)

\* MetricsCalculator(authors)
Construct ==
    /\ prog = "metrics" /\ mpc = "new"
    /\ mpc' = "built"
    /\ mdf' = clean_data(authors)
    /\ UNCHANGED <<prog, authors, ret, notMetrics>>

GenerateRanking ==
    /\ prog = "metrics" /\ mpc = "built"
    /\ IF generate_ranking_raises(authors)
       THEN mpc' = "raised" /\ ret' = "KeyError" /\ UNCHANGED mdf
       ELSE /\ mpc' = "ranked" /\ ret' = "frame"
            /\ mdf' \in generate_ranking(mdf)
    /\ UNCHANGED <<prog, authors, notMetrics>>

\* ranking_desde_csv.generar_ranking(input_file)
generar_ranking ==
    /\ prog = "csv" /\ mpc = "new"
    /\ mpc' = "ranked"
    /\ LET rows == CsvNumeric(CsvFilter(authors))
       IN  IF Len(rows) = 0
           THEN mdf' = <<>> /\ ret' = "None"
           ELSE mdf' = WithRank(SortValues(<<>>, rows)) /\ ret' = "frame"
    /\ UNCHANGED <<prog, authors, notMetrics>>

InitMetrics == MetricsStart /\ IdleFetch /\ IdleRec /\ IdleClean /\ IdleScrape /\ IdleSerp /\ IdleAdd

NextMetrics == Construct \/ GenerateRanking \/ generar_ranking

SpecMetrics == InitMetrics /\ [][NextMetrics]_vars

(***************************************************************************)
(* Claims about the ranking and the scores                                 *)
(***************************************************************************)
\* the index labels of the records that survive: the first of each
\* scholar_id (MetricsCalculator), the rows with an h_index (generar_ranking)
Survivors ==
    IF prog = "metrics"
    THEN {p \in 1..Len(authors) :
            \A q \in 1..(p - 1) : authors[q].scholar_id # authors[p].scholar_id}
    ELSE {p \in 1..Len(authors) : authors[p].h_index.t # "nan"}

\* C7: the ranking lists the records by h_index descending and, among equal
\* h_index, by citations descending; rank is 1..n in that order; the ranked
\* records are a permutation of the surviving records.
C7_RankingOrder ==
    mpc = "ranked" /\ ret = "frame" =>
        /\ \A k \in 1..(Len(mdf) - 1) :
             \/ mdf[k].h_index > mdf[k + 1].h_index
             \/ /\ mdf[k].h_index = mdf[k + 1].h_index
                /\ mdf[k].citations >= mdf[k + 1].citations
        /\ \A k \in 1..Len(mdf) : mdf[k].rank = k
        /\ Len(mdf) = Cardinality(Survivors)
        /\ {mdf[k].idx : k \in 1..Len(mdf)} = Survivors
        /\ \A k \in 1..Len(mdf) :
             /\ mdf[k].h_index = ToInt(authors[mdf[k].idx].h_index)
             /\ mdf[k].citations = ToInt(authors[mdf[k].idx].citations)

\* the records (h, c) = (low, high), (high, low), (high, high) rank in the
\* order (high, high), (high, low), (low, high)
C7_Witness ==
    /\ mpc = "ranked" /\ prog = "metrics" /\ Len(authors) = 3 /\ Len(mdf) = 3
    /\ authors[1].h_index = Num(0) /\ authors[1].citations = Num(1)
    /\ authors[2].h_index = Num(1) /\ authors[2].citations = Num(0)
    /\ authors[3].h_index = Num(1) /\ authors[3].citations = Num(1)
    /\ mdf[1].idx = 3 /\ mdf[2].idx = 2 /\ mdf[3].idx = 1

\* the sort of generate_ranking and of generar_ranking is stable: records of
\* equal h_index and equal citations keep the order they came in
C8_GenerateRankingStable ==
    mpc = "ranked" =>
        \A a, b \in 1..Len(mdf) :
            (a < b /\ mdf[a].h_index = mdf[b].h_index
                   /\ mdf[a].citations = mdf[b].citations) => mdf[a].idx < mdf[b].idx

\* the five conditions of the consistency index, read off the record handed in
Bucket(b, r) ==
    CASE b = 1 -> r.affiliation # NaN /\ Len(r.affiliation) > 5
      [] b = 2 -> Len(r.interests) > 0
      [] b = 3 -> r.email_domain # NaN /\ Len(r.email_domain) > 3
      [] b = 4 -> /\ ToInt(r.h_index) > 0 /\ ToInt(r.citations) > 0
                  /\ 2 * ToInt(r.citations) >= ToInt(r.h_index) * ToInt(r.h_index)
      [] b = 5 -> ToInt(r.h_index_5y) > 0

\* C9: the consistency index of a record is 20 times the number of the five
\* conditions that hold of it, each counted whatever the others are, so it
\* is one of 0, 20, 40, 60, 80, 100.
C9_ConsistencyIsBucketCount ==
    mpc = "ranked" /\ prog = "metrics" =>
        \A k \in 1..Len(mdf) :
            /\ mdf[k].c_index =
                 20 * Cardinality({b \in 1..5 : Bucket(b, authors[mdf[k].idx])})
            /\ mdf[k].c_index \in {0, 20, 40, 60, 80, 100}

\* a record with h_index 2 and citations 2 (2 is half of 2 * 2), an
\* affiliation of six characters and an e-mail domain of three scores 40
C9_Witness ==
    /\ mpc = "ranked" /\ prog = "metrics" /\ Len(mdf) = 1
    /\ mdf[1].affiliation = "UChile" /\ mdf[1].email_domain = "u.c"
    /\ mdf[1].interests = <<>> /\ mdf[1].h_index_5y = 0
    /\ mdf[1].h_index = 2 /\ mdf[1].citations = 2
    /\ mdf[1].c_index = 40

\* the records of the batch share h_index, citations, h_index_5y, i10_index
AllIdentical(d) ==
    \A j, k \in 1..Len(d) :
        /\ d[j].h_index = d[k].h_index /\ d[j].citations = d[k].citations
        /\ d[j].h_index_5y = d[k].h_index_5y /\ d[j].i10_index = d[k].i10_index

\* C10: in a non-empty batch every impact score is within 0 and 100, and it
\* is exactly 50.00 for every record if the records share the four metrics.
C10_ImpactInRange ==
    mpc = "ranked" /\ prog = "metrics" =>
        \A k \in 1..Len(mdf) :
            /\ mdf[k].impact_score >= 0 /\ mdf[k].impact_score <= 10000
            /\ AllIdentical(mdf) => mdf[k].impact_score = 5000

C10_Witness ==
    /\ mpc = "ranked" /\ prog = "metrics" /\ Len(mdf) = 2
    /\ AllIdentical(mdf)
    /\ mdf[1].h_index = 1 /\ mdf[1].citations = 1
    /\ mdf[1].impact_score = 5000 /\ mdf[2].impact_score = 5000

\* the numeric metric columns of a frame
MetricColumns == {"h_index", "h_index_5y", "i10_index", "citations"}

\* C26: whatever the raw values were, every numeric metric of every record
\* that has been cleaned for scoring and ranking is a non-negative integer.
C26_MetricsNonNegative ==
    (mpc \in {"built", "ranked"} /\ prog \in {"metrics", "csv"}) =>
        \A k \in 1..Len(mdf) :
            \A c \in MetricColumns \cap DOMAIN mdf[k] : mdf[k][c] \in Nat

\* the part of C26 that holds: every metric is an integer, and text, a
\* missing value and a fraction between -1 and 1 become 0
C26_MetricsAreIntegers ==
    (mpc \in {"built", "ranked"} /\ prog \in {"metrics", "csv"}) =>
        \A k \in 1..Len(mdf) :
            /\ \A c \in MetricColumns \cap DOMAIN mdf[k] : mdf[k][c] \in Int
            /\ authors[mdf[k].idx].citations \in {NaNCell, TextCell, Frac(1), Frac(0 - 1)}
                   => mdf[k].citations = 0

\* C21: with no input record MetricsCalculator raises at no step, and what
\* it builds and returns is empty.
C21_EmptyIsPropagated ==
    (prog = "metrics" /\ authors = <<>>) => (mpc # "raised" /\ mdf = <<>>)

(***************************************************************************)
(* scraper_alt.py (ScholarScraperAlt) and scraper.py (ScholarScraper).     *)
(* One action is one call of get_author_by_id, one search request, or one  *)
(* turn of the loop over the results of a search.  slog records, in the    *)
(* order they happen, every _random_delay, every upstream call and every   *)
(* call of _parse_author_page.                                             *)
(***************************************************************************)
Ev(e, i) == [ev |-> e, id |-> i]

Delay == Ev("delay", 0)

UpstreamCalls == {"get", "get_search", "search_author_id", "search_author", "fill"}

\* what the upstream answers to session.get of a profile page: a page with
\* the profile, a page with an anti-bot marker, a status other than 200, an
\* exception of requests, a page _parse_author_page fails on
AltResponses == {"ok", "captcha", "http_error", "exception", "parse_error"}

\* ScholarScraperAlt.get_author_by_id(scholar_id): what it does
AltEventsMutParseAlways(id, resp) == <<Delay, Ev("get", id), Ev("parse", id)>>

AltEvents(id, resp) ==
    <<Delay, Ev("get", id)>>
    \o (IF resp \in {"ok", "parse_error"} THEN <<Ev("parse", id)>> ELSE <<>>)

\* ScholarScraperAlt.get_author_by_id(scholar_id): what it returns, <<>> for None
AltResult(id, resp) == IF resp = "ok" THEN <<[scholar_id |-> id]>> ELSE <<>>

\* what scholarly answers to search_author_id and fill: no author, an
\* exception, an author, an author whose fill raises, an author that has
\* neither a name nor a scholar_id
SchResponses == {"none", "raise", "found", "found_fill_raises", "found_no_name_no_id"}

\* ScholarScraper.get_author_by_id(scholar_id)
SchEvents(id, resp) ==
    <<Delay, Ev("search_author_id", id)>>
    \o (IF resp \in {"found", "found_fill_raises", "found_no_name_no_id"}
        THEN <<Ev("fill", id)>> ELSE <<>>)

\* what it returns, <<>> for None: _extract_author_data returns None for an
\* author without name and scholar_id
SchResult(id, resp) ==
    IF resp \in {"found", "found_fill_raises"} THEN <<[scholar_id |-> id]>> ELSE <<>>

\* one turn of the loop of search_by_affiliation: _extract_author_data(author)
\* and then _random_delay(); the author is of a type not recognized, or
\* scholarly.fill answers or raises, or the author has, filled or not,
\* neither a name nor a scholar_id
ExtractResponses == {"ok", "fill_raises", "unrecognized", "no_name_no_id"}

ExtractEvents(id, resp) ==
    (IF resp = "unrecognized" THEN <<>> ELSE <<Ev("fill", id)>>) \o <<Delay>>

\* _extract_author_data: None for a type not recognized and when
\* `not data['name'] and not data['scholar_id']`
ExtractResult(id, resp) ==
    IF resp \in {"unrecognized", "no_name_no_id"} THEN <<>> ELSE <<[scholar_id |-> id]>>

\* the identifiers 1..n, cut at max_results
FirstResults(n) ==
    [k \in 1..(IF n <= ScrapeMaxResults THEN n ELSE ScrapeMaxResults) |-> k]

\* what an operation returns once its loop is over
Returned(op, r) ==
    IF op = "get_author_by_id" THEN (IF r = <<>> THEN "None" ELSE "dict") ELSE "list"

\* _is_chilean(author_data): a Chilean keyword in the affiliation or the
\* e-mail domain of the profile, or '.cl' in the domain; the profile of
\* author 2 has neither
is_chilean(id) == id # 2

\* _is_social_science(author_data, disciplines): one of the disciplines in an
\* interest or in the affiliation of the profile; none when the list of
\* disciplines is empty; the profile of author 1 has none of them
is_social_science(id, disciplines) == disciplines > 0 /\ id # 1

\* the searches search_comprehensive makes: one search_by_affiliation for
\* each university, then one search_by_keyword_and_location for each discipline
Searches(unis, discs) ==
    [k \in 1..(unis + discs) |-> IF k <= unis THEN "search_by_affiliation"
                                 ELSE "search_by_keyword_and_location"]

\* len(disciplines), all of them still to be searched while the universities are
Disciplines(queue) ==
    Cardinality({k \in 1..Len(queue) : queue[k] = "search_by_keyword_and_location"})

\* the search method that is running
CurrentSearch == IF sop = "search_comprehensive" THEN Head(squeue) ELSE sop

\* what one turn of the loop of a search appends to `authors`:
\* search_by_keyword_and_location keeps only the Chilean profiles
SearchResult(search, id, resp) ==
    IF search = "search_by_keyword_and_location" /\ ~is_chilean(id) THEN <<>>
    ELSE ExtractResult(id, resp)

\* search_comprehensive, `for author in authors`: a profile goes into
\* all_authors when its scholar_id is not a key yet and, after a search by
\* university, when it is of the social sciences
RECURSIVE Consolidate(_, _, _, _)
Consolidate(all, found, search, disciplines) ==
    IF found = <<>> THEN all
    ELSE LET a == Head(found)
             take == /\ \A k \in 1..Len(all) : all[k].scholar_id # a.scholar_id
                     /\ \/ search = "search_by_keyword_and_location"
                        \/ is_social_science(a.scholar_id, disciplines)
         IN  Consolidate(IF take THEN Append(all, a) ELSE all, Tail(found),
                         search, disciplines)

\* search_comprehensive: self._random_delay() after each search
AfterSearch == IF sop = "search_comprehensive" THEN <<Delay>> ELSE <<>>

ScrapeStart ==
    /\ sauthors = <<>> /\ slog = <<>> /\ sresps = <<>> /\ sall = <<>>
    /\ \/ /\ sb = "alt" /\ sop = "get_authors_from_ids" /\ squeue = <<>>
          /\ \E n \in 0..MaxScrapeIds :
               /\ stodo = [k \in 1..n |-> k]
               /\ spc = (IF n = 0 THEN "done" ELSE "loop")
               /\ sret = (IF n = 0 THEN "list" ELSE "pending")
       \/ /\ sb \in {"alt", "scholarly"} /\ sop = "get_author_by_id" /\ squeue = <<>>
          /\ stodo = <<1>> /\ spc = "loop" /\ sret = "pending"
       \/ /\ sb = "alt" /\ sop = "search_authors" /\ squeue = <<>>
          /\ stodo = <<>> /\ spc = "search" /\ sret = "pending"
       \/ /\ sb = "scholarly" /\ squeue = <<>>
          /\ sop \in {"search_by_affiliation", "search_by_keyword_and_location"}
          /\ stodo = <<>> /\ spc = "search" /\ sret = "pending"
       \/ /\ sb = "scholarly" /\ sop = "search_comprehensive" /\ stodo = <<>>
          /\ \E unis \in 0..MaxSearches, discs \in 0..MaxSearches :
               /\ unis + discs <= MaxSearches
               /\ squeue = Searches(unis, discs)
               /\ spc = (IF unis + discs = 0 THEN "done" ELSE "search")
               /\ sret = (IF unis + discs = 0 THEN "list" ELSE "pending")

\* the end of a search with `authors` = found: the operation returns, or
\* search_comprehensive consolidates what the search returned and goes on
\* to its next search
SearchEnds(found, r) ==
    IF sop = "search_comprehensive"
    THEN /\ sall' = Consolidate(sall, found, Head(squeue), Disciplines(squeue))
         /\ squeue' = Tail(squeue)
         /\ sauthors' = <<>>
         /\ spc' = (IF Tail(squeue) = <<>> THEN "done" ELSE "search")
         /\ sret' = (IF Tail(squeue) = <<>> THEN "list" ELSE "pending")
    ELSE /\ sauthors' = found
         /\ spc' = "done"
         /\ sret' = Returned(sop, r)
         /\ UNCHANGED <<squeue, sall>>

\* the loop step shared by the kinds of call
Step(events, r, resp) ==
    /\ slog' = slog \o events \o (IF Tail(stodo) = <<>> THEN AfterSearch ELSE <<>>)
    /\ sresps' = Append(sresps, [id |-> Head(stodo), resp |-> resp])
    /\ stodo' = Tail(stodo)
    /\ IF Tail(stodo) = <<>>
       THEN SearchEnds(sauthors \o r, r)
       ELSE /\ sauthors' = sauthors \o r
            /\ spc' = "loop"
            /\ sret' = "pending"
            /\ UNCHANGED <<squeue, sall>>
    /\ UNCHANGED <<sb, sop, notScrape>>

\* ScholarScraperAlt.get_author_by_id, called directly, by
\* get_authors_from_ids or by search_authors
AltGetAuthorById ==
    /\ sb = "alt" /\ spc = "loop" /\ stodo # <<>>
    /\ \E resp \in AltResponses :
         Step(AltEvents(Head(stodo), resp), AltResult(Head(stodo), resp), resp)

\* the request of ScholarScraperAlt.search_authors
AltSearchAuthors ==
    /\ sb = "alt" /\ sop = "search_authors" /\ spc = "search"
    /\ slog' = slog \o <<Delay, Ev("get_search", 0)>>
    /\ \E answered \in BOOLEAN, n \in 0..MaxScrapeIds :
         /\ stodo' = (IF answered THEN FirstResults(n) ELSE <<>>)
         /\ spc' = (IF answered /\ n > 0 THEN "loop" ELSE "done")
         /\ sret' = (IF answered /\ n > 0 THEN "pending" ELSE "list")
    /\ UNCHANGED <<sb, sop, sauthors, sresps, squeue, sall, notScrape>>

\* ScholarScraper.get_author_by_id
SchGetAuthorById ==
    /\ sb = "scholarly" /\ sop = "get_author_by_id" /\ spc = "loop" /\ stodo # <<>>
    /\ \E resp \in SchResponses :
         Step(SchEvents(Head(stodo), resp), SchResult(Head(stodo), resp), resp)

\* scholarly.search_author(...) of a search method of ScholarScraper, called
\* directly or by search_comprehensive: no delay comes before it
SearchAuthor ==
    /\ \E answered \in BOOLEAN, n \in 0..MaxScrapeIds :
         LET results == IF answered THEN FirstResults(n) ELSE <<>>
         IN  /\ stodo' = results
             /\ slog' = slog \o <<Ev("search_author", 0)>>
                             \o (IF results = <<>> THEN AfterSearch ELSE <<>>)
             /\ IF results = <<>>
                THEN SearchEnds(<<>>, <<>>)
                ELSE /\ spc' = "loop"
                     /\ sret' = "pending"
                     /\ UNCHANGED <<sauthors, squeue, sall>>
    /\ UNCHANGED <<sb, sop, sresps, notScrape>>

\* scholarly.search_author(affiliation) of ScholarScraper.search_by_affiliation
SchSearchByAffiliation ==
    /\ sb = "scholarly" /\ spc = "search"
    /\ sop \in {"search_by_affiliation", "search_comprehensive"}
    /\ CurrentSearch = "search_by_affiliation"
    /\ SearchAuthor

\* scholarly.search_author(f"{keyword} {location}") of
\* ScholarScraper.search_by_keyword_and_location
SchSearchByKeywordAndLocation ==
    /\ sb = "scholarly" /\ spc = "search"
    /\ sop \in {"search_by_keyword_and_location", "search_comprehensive"}
    /\ CurrentSearch = "search_by_keyword_and_location"
    /\ SearchAuthor

\* one turn of `for i, author in enumerate(search_query)` of either search
SchExtractNext ==
    /\ sb = "scholarly" /\ spc = "loop" /\ stodo # <<>>
    /\ sop \in {"search_by_affiliation", "search_by_keyword_and_location",
                "search_comprehensive"}
    /\ \E resp \in ExtractResponses :
         Step(ExtractEvents(Head(stodo), resp),
              SearchResult(CurrentSearch, Head(stodo), resp), resp)

InitScrape == ScrapeStart /\ IdleFetch /\ IdleRec /\ IdleClean /\ IdleMetrics /\ IdleSerp /\ IdleAdd

NextScrape ==
    \/ AltGetAuthorById
    \/ AltSearchAuthors
    \/ SchGetAuthorById
    \/ SchSearchByAffiliation
    \/ SchSearchByKeywordAndLocation
    \/ SchExtractNext

SpecScrape == InitScrape /\ [][NextScrape]_vars

(***************************************************************************)
(* Claims about the scraping backends                                      *)
(***************************************************************************)
\* the places of slog where event e of identifier i is
Places(e, i) == {k \in 1..Len(slog) : slog[k] = Ev(e, i)}

\* the identifiers answered with a profile so far, in order
RECURSIVE Collected(_)
Collected(rs) ==
    IF rs = <<>> THEN <<>>
    ELSE (IF Head(rs).resp = "ok" THEN <<[scholar_id |-> Head(rs).id]>> ELSE <<>>)
         \o Collected(Tail(rs))

\* C12: a profile fetch answered with an anti-bot marker returns None, the
\* page is not handed to _parse_author_page and the identifier is not
\* requested again; get_authors_from_ids goes on to the other identifiers
\* and keeps the records it had.
C12_AntiBotFailsThatCallOnly ==
    sb = "alt" =>
        /\ \A k \in 1..Len(sresps) :
             sresps[k].resp = "captcha" =>
                /\ Places("parse", sresps[k].id) = {}
                /\ Cardinality(Places("get", sresps[k].id)) = 1
                /\ \A j \in 1..Len(sauthors) : sauthors[j].scholar_id # sresps[k].id
        /\ sauthors = Collected(sresps)
        /\ (sop = "get_author_by_id" /\ spc = "done" /\ sresps[1].resp = "captcha")
             => sret = "None"
        /\ (sop = "get_authors_from_ids" /\ spc = "done")
             => Len(sresps) = Cardinality(UNION {Places("get", i) : i \in 1..MaxScrapeIds})

C12_Witness ==
    /\ sb = "alt" /\ sop = "get_authors_from_ids" /\ spc = "done"
    /\ Len(sresps) = 3
    /\ sresps[1].resp = "ok" /\ sresps[2].resp = "captcha" /\ sresps[3].resp = "ok"
    /\ sauthors = <<[scholar_id |-> 1], [scholar_id |-> 3]>>

\* C17: in ScholarScraper and ScholarScraperAlt a randomized delay comes
\* right before every upstream call (profile fetch, author search, profile
\* fill), the first call of an operation included.
C17_DelayBeforeEveryCall ==
    \A k \in 1..Len(slog) :
        slog[k].ev \in UpstreamCalls => k > 1 /\ slog[k - 1].ev = "delay"

\* the same statement holds of ScholarScraperAlt alone
C17_AltDelaysBeforeEveryCall == sb = "alt" => C17_DelayBeforeEveryCall

(***************************************************************************)
(* scraper_serpapi.py (SerpAPIScholarScraper) and                          *)
(* build_ranking.fetch_with_serpapi.  One scraper object is built with     *)
(* api_key = karg; fetch_with_serpapi builds its own from the environment. *)
(* One action is the call of an operation up to its first request, or one  *)
(* call of get_author_by_id.                                               *)
(***************************************************************************)
\* self.api_key = api_key or os.environ.get('SERPAPI_KEY')
ApiKey(arg, env) == IF arg # "" THEN arg ELSE env

\* the key the scraper of an operation holds
KeyOf(op) == IF op = "fetch_with_serpapi" THEN ApiKey(kenv, kenv) ELSE ApiKey(karg, kenv)

\* what SerpAPI answers to requests.get: a JSON document with the data, one
\* the parsing fails on, a status other than 200, an exception of requests
SerpResponses == {"ok", "unparsable", "http_error", "exception"}

\* _make_request(params): the sleep and the request it makes
MakeRequestEventsMutNoKeyTest(key) == <<Ev("sleep", 0), Ev("get", 0)>>

MakeRequestEvents(key) == IF key = "" THEN <<>> ELSE <<Ev("sleep", 0), Ev("get", 0)>>

\* get_author_by_id(scholar_id): what it returns, <<>> for None
SerpResult(key, id, resp) ==
    IF key # "" /\ resp = "ok" THEN <<[scholar_id |-> id]>> ELSE <<>>

\* the call of an operation: its arguments are bound; fetch_with_serpapi
\* returns [] at once without SERPAPI_KEY, search_authors makes its request
SerpCall ==
    /\ kpc = "idle" /\ kops < MaxSerpOps
    /\ kops' = kops + 1
    /\ kauthors' = <<>> /\ kresps' = <<>>
    /\ \E op \in {"get_author_by_id", "get_authors_from_ids", "search_authors",
                 "fetch_with_serpapi"}, n \in 0..MaxSerpIds, answered \in BOOLEAN :
         LET ids == IF op = "get_author_by_id" THEN <<1>>
                    ELSE IF op = "search_authors" /\ (KeyOf(op) = "" \/ ~answered)
                    THEN <<>>
                    ELSE IF op = "fetch_with_serpapi" /\ kenv = "" THEN <<>>
                    ELSE [k \in 1..n |-> k]
         IN  /\ kop' = op
             /\ ktodo' = ids
             /\ kpc' = (IF ids = <<>> THEN "idle" ELSE "loop")
             /\ kret' = (IF ids = <<>> THEN "list" ELSE "pending")
             /\ klog' = klog \o (IF op = "search_authors"
                                 THEN MakeRequestEvents(KeyOf(op)) ELSE <<>>)
    /\ UNCHANGED <<kenv, karg, notSerp>>

\* SerpAPIScholarScraper.get_author_by_id, called directly or by the loop of
\* get_authors_from_ids, search_authors or fetch_with_serpapi
SerpGetAuthorById ==
    /\ kpc = "loop" /\ ktodo # <<>>
    /\ \E resp \in SerpResponses :
         LET id == Head(ktodo)
             r  == SerpResult(KeyOf(kop), id, resp)
         IN  /\ klog' = klog \o MakeRequestEvents(KeyOf(kop))
             /\ kresps' = Append(kresps, [id |-> id,
                                          resp |-> IF KeyOf(kop) = "" THEN "no_key" ELSE resp])
             /\ kauthors' = kauthors \o r
             /\ ktodo' = Tail(ktodo)
             /\ kpc' = (IF Tail(ktodo) = <<>> THEN "idle" ELSE "loop")
             /\ kret' = (IF Tail(ktodo) = <<>> THEN Returned(kop, r) ELSE "pending")
    /\ UNCHANGED <<kenv, karg, kop, kops, notSerp>>

SerpStart ==
    /\ kenv \in {"", "key"} /\ karg \in {"", "key"}
    /\ kop = "none" /\ kpc = "idle" /\ ktodo = <<>> /\ kauthors = <<>>
    /\ kret = "pending" /\ kops = 0 /\ klog = <<>> /\ kresps = <<>>

InitSerp == SerpStart /\ IdleFetch /\ IdleRec /\ IdleClean /\ IdleMetrics /\ IdleScrape /\ IdleAdd

NextSerp == SerpCall \/ SerpGetAuthorById

SpecSerp == InitSerp /\ [][NextSerp]_vars

(***************************************************************************)
(* Claims about the paid-API backend                                       *)
(***************************************************************************)
\* an operation has returned
SerpReturned == kops > 0 /\ kpc = "idle"

\* C13: without the credential, get_author_by_id, get_authors_from_ids and
\* fetch_with_serpapi report a configuration error: they do not return None
\* or an empty list as they do for an identifier without data.
C13_MissingKeyIsReported ==
    (SerpReturned /\ KeyOf(kop) = ""
       /\ kop \in {"get_author_by_id", "get_authors_from_ids", "fetch_with_serpapi"})
        => ~(kret = "None" \/ (kret = "list" /\ kauthors = <<>>))

\* C14: with neither the constructor argument nor SERPAPI_KEY, the backend
\* makes no HTTP request and no throttling sleep, whatever operations are
\* called.
C14_NoKeyNoIO == (karg = "" /\ kenv = "") => klog = <<>>

\* two operations without a key, the second over two identifiers
C14_Witness ==
    /\ karg = "" /\ kenv = "" /\ kops = 2 /\ SerpReturned
    /\ kop = "get_authors_from_ids" /\ Len(kresps) = 2

(***************************************************************************)
(* add_researchers.py: add_by_id, add_from_file and search_and_add on the  *)
(* dict `authors`.                                                         *)
(* A record carries its identifier and when it was extracted: "earlier"    *)
(* for a record loaded from the last authors file, "now" for one fetched   *)
(* by this run.                                                            *)
(***************************************************************************)
AddIds == 1..MaxAddIds

\* a record of the loaded file / a dict scraper.get_author_by_id returns
AuthorRecord(id, at) == [scholar_id |-> id, extracted_at |-> at]

\* what ScholarScraper.get_author_by_id answers: a dict, or None (no such
\* author, or any exception, which it catches)
AddResponses == {"dict", "None"}

\* a cell of the identifier column: an identifier, with or without blanks
\* around it, or an empty cell
IdCell(id, pad) == [t |-> "str", id |-> id, pad |-> pad]
NaNIdCell == [t |-> "nan", id |-> 0, pad |-> FALSE]
IdCells == {NaNIdCell} \cup {IdCell(i, b) : i \in AddIds, b \in BOOLEAN}

\* pd.isna(scholar_id)
isna(cell) == cell.t = "nan"

\* str(scholar_id).strip(): the blanks around the identifier are dropped
StrStrip(cell) == cell.id

\* authors[scholar_id] = author
SetItem(map, key, v) == [x \in DOMAIN map \cup {key} |-> IF x = key THEN v ELSE map[x]]

\* add_by_id(scholar_id, authors, scraper), the scraper answering resp:
\* the dict it leaves, what it returns, and whether it called the scraper
add_by_idMutNoPresenceTest(scholar_id, map, resp) ==
    IF resp = "dict"
    THEN [authors |-> SetItem(map, scholar_id, AuthorRecord(scholar_id, "now")),
          ret |-> TRUE, fetched |-> TRUE]
    ELSE [authors |-> map, ret |-> FALSE, fetched |-> TRUE]

add_by_id(scholar_id, map, resp) ==
    IF scholar_id \in DOMAIN map
    THEN [authors |-> map, ret |-> FALSE, fetched |-> FALSE]
    ELSE IF resp = "dict"
    THEN [authors |-> SetItem(map, scholar_id, AuthorRecord(scholar_id, "now")),
          ret |-> TRUE, fetched |-> TRUE]
    ELSE [authors |-> map, ret |-> FALSE, fetched |-> TRUE]

\* search_and_add: a search result without a scholar_id (None or ''), and
\* a number of the selection that is not one of the results
NoIdCell == [t |-> "none", id |-> 0, pad |-> FALSE]
OutOfRange == [t |-> "out", id |-> 0, pad |-> FALSE]

\* the lists `results` of search_and_add that are not empty
SearchResults ==
    UNION {[1..n -> {NoIdCell} \cup {IdCell(i, FALSE) : i \in AddIds}] : n \in 1..MaxFileIds}

\* what input() returns: 'cancelar', 'todos', numbers between commas, or
\* anything else (int() raises on it)
Selection(word, nums) == [word |-> word, nums |-> nums]

Selections(results) ==
    {Selection(w, <<>>) : w \in {"cancelar", "todos", "other"}}
    \cup {Selection("numbers", nums) :
            nums \in UNION {[1..n -> 0..(Len(results) + 1)] : n \in 1..MaxPicks}}

\* search_and_add, `indices` and the test 0 <= idx < len(results): what
\* each turn of `for idx in indices` finds
Selected(results, selection) ==
    IF selection.word = "todos" THEN results
    ELSE [k \in 1..Len(selection.nums) |->
            IF 1 <= selection.nums[k] /\ selection.nums[k] <= Len(results)
            THEN results[selection.nums[k]] ELSE OutOfRange]

\* the dict load_existing_authors returns and the call main makes
AddStart ==
    /\ \E S \in SUBSET AddIds : adict = [i \in S |-> AuthorRecord(i, "earlier")]
    /\ aloaded = adict /\ abefore = adict /\ alast = <<>>
    /\ added = 0 /\ apos = 0
    /\ \/ /\ aop = "add_by_id" /\ aidcol = TRUE
          /\ \E i \in AddIds : acolumn = <<IdCell(i, FALSE)>>
          /\ apc = "start" /\ aret = <<>>
       \/ /\ aop = "add_from_file" /\ aidcol \in BOOLEAN
          /\ \E n \in 0..MaxFileIds : acolumn \in [1..n -> IdCells]
          /\ apc = (IF aidcol /\ acolumn = <<>> THEN "done" ELSE "start")
          /\ aret = (IF aidcol /\ acolumn = <<>> THEN <<0>> ELSE <<>>)
       \/ /\ aop = "search_and_add" /\ aidcol = TRUE
          /\ acolumn = <<>> /\ apc = "start" /\ aret = <<>>

\* add_by_id(args.id, authors, scraper)
AddById ==
    /\ aop = "add_by_id" /\ apc = "start"
    /\ \E resp \in AddResponses :
         LET id == acolumn[1].id
             r  == add_by_id(id, adict, resp)
         IN  /\ adict' = r.authors
             /\ abefore' = adict
             /\ alast' = <<[id |-> id, resp |-> resp, fetched |-> r.fetched, ret |-> r.ret]>>
             /\ added' = (IF r.ret THEN 1 ELSE 0)
             /\ aret' = <<r.ret>>
    /\ apos' = 1
    /\ apc' = "done"
    /\ UNCHANGED <<aop, aidcol, acolumn, aloaded, notAdd>>

\* add_from_file: no identifier column in the file, `return 0`
NoIdColumn ==
    /\ aop = "add_from_file" /\ apc = "start" /\ ~aidcol
    /\ apc' = "done"
    /\ aret' = <<0>>
    /\ UNCHANGED <<aop, aidcol, acolumn, apos, adict, added, aloaded, abefore, alast, notAdd>>

\* add_from_file: one turn of `for scholar_id in df[id_col]`, and the
\* `return added` after the last
AddFromFileStep ==
    /\ aop = "add_from_file" /\ apc \in {"start", "loop"} /\ aidcol
    /\ apos < Len(acolumn)
    /\ apos' = apos + 1
    /\ \E resp \in AddResponses :
         LET cell == acolumn[apos + 1]
             r    == add_by_id(StrStrip(cell), adict, resp)
             n    == IF isna(cell) THEN added
                     ELSE IF r.ret THEN added + 1 ELSE added
         IN  /\ IF isna(cell)
                THEN UNCHANGED <<adict, abefore, alast>>
                ELSE /\ adict' = r.authors
                     /\ abefore' = adict
                     /\ alast' = <<[id |-> StrStrip(cell), resp |-> resp,
                                    fetched |-> r.fetched, ret |-> r.ret]>>
             /\ added' = n
             /\ apc' = (IF apos + 1 = Len(acolumn) THEN "done" ELSE "loop")
             /\ aret' = (IF apos + 1 = Len(acolumn) THEN <<n>> ELSE <<>>)
    /\ UNCHANGED <<aop, aidcol, acolumn, aloaded, notAdd>>

\* search_and_add up to its loop: scholarly.search_author raises, finds
\* nothing or finds `results`; the user cancels, or int() raises on the
\* selection, or the selection gives `indices`
SearchAndAdd ==
    /\ aop = "search_and_add" /\ apc = "start"
    /\ \/ /\ apc' = "done"
          /\ aret' = <<0>>
          /\ UNCHANGED acolumn
       \/ \E results \in SearchResults :
            \E selection \in Selections(results) :
               /\ selection.word \in {"todos", "numbers"}
               /\ acolumn' = Selected(results, selection)
               /\ apc' = "loop"
               /\ aret' = <<>>
    /\ UNCHANGED <<aop, aidcol, apos, adict, added, aloaded, abefore, alast, notAdd>>

\* search_and_add: one turn of `for idx in indices`, and the `return added`
\* after the last
SearchAndAddStep ==
    /\ aop = "search_and_add" /\ apc = "loop"
    /\ apos < Len(acolumn)
    /\ apos' = apos + 1
    /\ \E resp \in AddResponses :
         LET cell == acolumn[apos + 1]
             r    == add_by_id(cell.id, adict, resp)
             n    == IF cell.t = "str" /\ r.ret THEN added + 1 ELSE added
         IN  /\ IF cell.t = "str"
                THEN /\ adict' = r.authors
                     /\ abefore' = adict
                     /\ alast' = <<[id |-> cell.id, resp |-> resp,
                                    fetched |-> r.fetched, ret |-> r.ret]>>
                ELSE UNCHANGED <<adict, abefore, alast>>
             /\ added' = n
             /\ apc' = (IF apos + 1 = Len(acolumn) THEN "done" ELSE "loop")
             /\ aret' = (IF apos + 1 = Len(acolumn) THEN <<n>> ELSE <<>>)
    /\ UNCHANGED <<aop, aidcol, acolumn, aloaded, notAdd>>

InitAdd ==
    AddStart /\ IdleFetch /\ IdleRec /\ IdleClean /\ IdleMetrics /\ IdleScrape /\ IdleSerp

NextAdd == AddById \/ NoIdColumn \/ AddFromFileStep \/ SearchAndAdd \/ SearchAndAddStep

SpecAdd == InitAdd /\ [][NextAdd]_vars

(***************************************************************************)
(* Claims about add_researchers                                            *)
(***************************************************************************)
Keys(map) == DOMAIN map

\* C29: an identifier already in the dict is neither fetched nor written
\* again, a fetch without data leaves the dict as it was, and add_by_id
\* returns True exactly when it put a new key; so the dict keeps every key
\* and record it was loaded with, and the count of add_from_file is the
\* number of keys the dict has grown by.
C29_AddByIdFrame ==
    /\ Keys(aloaded) \subseteq Keys(adict)
    /\ \A i \in Keys(aloaded) : adict[i] = aloaded[i]
    /\ added = Cardinality(Keys(adict)) - Cardinality(Keys(aloaded))
    /\ (aop = "add_from_file" /\ apc = "done") =>
           aret = <<Cardinality(Keys(adict)) - Cardinality(Keys(aloaded))>>
    /\ \A c \in 1..Len(alast) :
           LET call == alast[c]
               new  == call.id \notin Keys(abefore) /\ call.id \in Keys(adict)
           IN  /\ call.id \in Keys(abefore) => (~call.fetched /\ adict = abefore)
               /\ (call.fetched /\ call.resp = "None") => adict = abefore
               /\ call.ret = new
               /\ Keys(abefore) \subseteq Keys(adict)
               /\ \A i \in Keys(abefore) : adict[i] = abefore[i]

\* a file of two cells with one identifier, unknown before: the first fetch
\* has no data, the second has, and add_from_file returns 1
C29_Witness ==
    /\ aop = "add_from_file" /\ apc = "done" /\ Len(acolumn) = 2
    /\ acolumn[1].id = acolumn[2].id /\ acolumn[1].pad # acolumn[2].pad
    /\ ~isna(acolumn[1])
    /\ Keys(aloaded) = {} /\ Keys(abefore) = {}
    /\ Keys(adict) = {acolumn[2].id}
    /\ aret = <<1>> /\ alast[1].ret

====
